---- MODULE Spec2Model ----
(***************************************************************************)
(* A model of the video pipeline (src/vision.py, class StreamProcessor)   *)
(* and of the stream registry and its HTTP handlers (src/routes.py,       *)
(* src/app.py).                                                            *)
(*                                                                         *)
(* A frame is identified by its capture sequence number (seq), a result   *)
(* by the frame it was built from.  Every Python thread is a process of   *)
(* the model: a request thread r (a waitress worker running one handler,  *)
(* or a direct caller of a StreamProcessor method) and a worker thread w   *)
(* (a capture or an analysis loop spawned by StreamProcessor.start).      *)
(***************************************************************************)
EXTENDS Integers, Sequences, FiniteSets, TLC

\* ---------------------------------------------------------------- bounds
NProcs == 2          \* StreamProcessor objects that can be constructed
PipeFrames == 13     \* frames a source delivers (SpecPipe)
PipeDrops == 2       \* frames dropped on a full frame queue (SpecPipe)
LongFrames == 32     \* frames a source delivers (SpecLong)
LongDrops == 0       \* frames dropped on a full frame queue (SpecLong)
ReadFrames == 3      \* frames a source delivers (SpecRead)
RegFrames == 1       \* frames a source delivers (Spec)
MaxReadFails == 1    \* transient read failures of a live source
FileFrames == 3      \* CAP_PROP_FRAME_COUNT of a video file
MaxOps == 3          \* requests the server receives, one at a time
RaceOps == 3         \* requests the server receives, two at a time
LifeFrames == 2      \* frames a source delivers (SpecLife)
DetectFrames == 3    \* frames a source delivers (SpecDetect)
PaceFrames == 5      \* frames a source delivers (SpecPace)
MaxTime == 4         \* frame periods the clock advances (SpecPace)
FeedOps == 3         \* requests the server receives (SpecFeed)
GenOps == 2          \* requests without an id the server receives (SpecGen)
Fps == 2             \* frame periods of the clock in one second
RestartFrames == 4   \* frames a source delivers (SpecRestart)
StallFrames == 12    \* frames a source delivers (SpecStall)
CfgOps == 3          \* requests the server receives (SpecCfg)
DetOps == 2          \* configuration updates received (SpecDet)
PeekFrames == 3      \* frames read once the result queue is full (SpecPeek)
CfgFrames == 3       \* frames a source delivers (SpecCfg)
StallDrops == 2      \* frames dropped on a full frame queue (SpecStall)

\* ------------------------------------------------------ program constants
FrameQueueMax == 10  \* Queue(maxsize=10)
ResultQueueMax == 30 \* Queue(maxsize=30)

Procs == 1..NProcs
Workers == 1..(2 * NProcs)
Reqs == {1, 2}
Ids == {"a", "b"}
\* str(n) for the values int(time.time()) takes, counted from the start
Digits == <<"0", "1", "2", "3", "4", "5", "6", "7", "8", "9">>
str(n) == Digits[n + 1]
TimeIds == {str(t) : t \in 0..(MaxTime \div Fps)}
\* the keys the dict streams can hold
StreamIds == Ids \cup TimeIds
Urls == {"live", "file", "bad"}
NoUrl == "nourl"
None == "None"
\* self.detection_thread before start has assigned it
Unset == 0 - 1
\* frames: 0 is None, Blank the np.zeros((480, 640, 3)) placeholder
NoFrame == 0
Blank == 0 - 1
\* request.json of update_config when it is empty or missing (falsy)
NoData == [detection |-> "none", motion |-> "none"]

VARIABLES
    \* StreamProcessor fields, per object
    url, stream_id, running, cap, thread, detection_thread, latest_frame,
    frame_queue, result_queue, frame_count, total_frames, start_time,
    \* the source behind cap: next frame position of the open capture
    pos,
    \* history: frames read so far, frames whose result was stored, frames dropped,
    \* failed reads of a live source
    seq, published, drops, readFails,
    \* worker threads: kind, owner, position, frame held by an analysis worker
    \* and the result an analysis worker has built and not yet stored
    wkind, wproc, wpc, wframe, wresult,
    \* history: no detector flag has changed since the worker took its frame
    wsince,
    \* module globals of app.py: streams, CONFIG["streams"],
    \* CONFIG["motion"]["enabled"], CONFIG["detection"]["enabled"]
    streams, configStreams, motion_enabled, detection_enabled,
    \* request threads: handler, position, arguments and locals, response
    rop, rpc, rid, rurl, rproc, rret, rframe, rresult, resp, itSize, itSeen,
    \* the JSON body of an update_config request, the dict of get_status
    rdata, rstatus,
    \* requests begun so far
    nops,
    \* time.time(); self.start_time; history: when the current pass over a
    \* file began (start_time, then the time of the last loop-back)
    now, startAt, passAt

procVars == <<url, stream_id, running, cap, thread, detection_thread,
              latest_frame, frame_queue, result_queue, frame_count,
              total_frames, start_time, pos, seq, published, drops, readFails>>
workerVars == <<wkind, wproc, wpc, wframe, wresult, wsince>>
regVars == <<streams, configStreams, motion_enabled, detection_enabled>>
reqVars == <<rop, rpc, rid, rurl, rproc, rret, rframe, rresult, resp, itSize,
             itSeen, rdata, rstatus, nops>>
\* the clock, in units of one frame period 1/original_fps of a video file
timeVars == <<now, startAt, passAt>>
vars == <<procVars, workerVars, regVars, reqVars, timeVars>>

\* os.path.isfile(url)
is_local_file(u) == u = "file"

\* cv2.VideoCapture(url).isOpened() for a first open
OpenableUrls == {"live", "file"}
Openable(u) == u \in OpenableUrls

\* threading.Thread.is_alive(); t = 0 stands for None
is_alive(t) == t # 0 /\ wpc[t] # "done"

\* A worker that is inside a call that can outlast a join(timeout=1.0):
\* the pacing sleep or the read of the capture loop, the reconnect sleep,
\* the detector calls of the analysis loop.
BlockingPcs == {"read", "reopen", "detect", "detect_object"}
Blocked(t) == t # 0 /\ wpc[t] \in BlockingPcs

FreeWorkers == {w \in Workers : wkind[w] = None}
FreeProcs == {p \in Procs : url[p] = NoUrl}
Min(S) == CHOOSE x \in S : \A y \in S : x <= y

\* ------------------------------------------------- StreamProcessor.__init__
InitProcessor(p, id, u) ==
    /\ url' = [url EXCEPT ![p] = u]
    /\ stream_id' = [stream_id EXCEPT ![p] = id]
    /\ running' = [running EXCEPT ![p] = FALSE]
    /\ cap' = [cap EXCEPT ![p] = None]
    /\ thread' = [thread EXCEPT ![p] = 0]
    /\ latest_frame' = [latest_frame EXCEPT ![p] = 0]
    /\ frame_queue' = [frame_queue EXCEPT ![p] = <<>>]
    /\ result_queue' = [result_queue EXCEPT ![p] = <<>>]
    /\ frame_count' = [frame_count EXCEPT ![p] = 0]
    /\ total_frames' = [total_frames EXCEPT ![p] = 0]
    /\ UNCHANGED <<detection_thread, start_time, pos, seq, published, drops,
                   readFails>>

\* Where a request thread continues when the method it called returns.
CreateOps == {"add_stream", "load_video"}
AfterStart(r) == IF rop[r] \in CreateOps THEN "create_started" ELSE "ret"
AfterStop(r) == IF rop[r] = "delete_stream" THEN "delete_remove" ELSE "ret"

\* An exception that leaves the handler: Flask answers 500.
Raise(r, exc) ==
    /\ rpc' = [rpc EXCEPT ![r] = "ret"]
    /\ resp' = [resp EXCEPT ![r] = exc]

\* ---------------------------------------------------- StreamProcessor.start
\* if self.running: return;  self.running = True
StartFlag(r) ==
    LET p == rproc[r] IN
    /\ rpc[r] = "start_flag"
    /\ IF running[p]
         THEN /\ rret' = [rret EXCEPT ![r] = None]
              /\ rpc' = [rpc EXCEPT ![r] = AfterStart(r)]
              /\ UNCHANGED running
         ELSE /\ running' = [running EXCEPT ![p] = TRUE]
              /\ rpc' = [rpc EXCEPT ![r] = "start_open"]
              /\ UNCHANGED rret
    /\ UNCHANGED <<url, stream_id, cap, thread, detection_thread, latest_frame,
                   frame_queue, result_queue, frame_count, total_frames,
                   start_time, pos, seq, published, drops, readFails>>
    /\ UNCHANGED <<workerVars, regVars, rop, rid, rurl, rproc, rframe, rresult,
                   resp, itSize, itSeen, rdata, rstatus, nops, timeVars>>

\* Mutant of StartOpen: a failed open returns False with the flag left set.
StartOpenKeepFlag(r) ==
    LET p == rproc[r] IN
    /\ rpc[r] = "start_open"
    /\ IF Openable(url[p])
         THEN /\ cap' = [cap EXCEPT ![p] = "open"]
              /\ pos' = [pos EXCEPT ![p] = 0]
              /\ total_frames' = [total_frames EXCEPT ![p] =
                     IF is_local_file(url[p]) THEN FileFrames ELSE 0]
              /\ rpc' = [rpc EXCEPT ![r] = "start_spawn"]
              /\ UNCHANGED rret
         ELSE /\ cap' = [cap EXCEPT ![p] = "closed"]
              /\ rret' = [rret EXCEPT ![r] = "False"]
              /\ rpc' = [rpc EXCEPT ![r] = AfterStart(r)]
              /\ UNCHANGED <<pos, total_frames>>
    /\ UNCHANGED <<url, stream_id, running, thread, detection_thread,
                   latest_frame, frame_queue, result_queue, frame_count,
                   start_time, seq, published, drops, readFails>>
    /\ UNCHANGED <<workerVars, regVars, rop, rid, rurl, rproc, rframe, rresult,
                   resp, itSize, itSeen, rdata, rstatus, nops, timeVars>>

\* self.cap = cv2.VideoCapture(self.url); on failure running = False and
\* return False; otherwise read original_fps and total_frames.
StartOpen(r) ==
    LET p == rproc[r] IN
    /\ rpc[r] = "start_open"
    /\ IF Openable(url[p])
         THEN /\ cap' = [cap EXCEPT ![p] = "open"]
              /\ pos' = [pos EXCEPT ![p] = 0]
              /\ total_frames' = [total_frames EXCEPT ![p] =
                     IF is_local_file(url[p]) THEN FileFrames ELSE 0]
              /\ rpc' = [rpc EXCEPT ![r] = "start_spawn"]
              /\ UNCHANGED <<running, rret>>
         ELSE /\ cap' = [cap EXCEPT ![p] = "closed"]
              /\ running' = [running EXCEPT ![p] = FALSE]
              /\ rret' = [rret EXCEPT ![r] = "False"]
              /\ rpc' = [rpc EXCEPT ![r] = AfterStart(r)]
              /\ UNCHANGED <<pos, total_frames>>
    /\ UNCHANGED <<url, stream_id, thread, detection_thread, latest_frame,
                   frame_queue, result_queue, frame_count, start_time, seq,
                   published, drops, readFails>>
    /\ UNCHANGED <<workerVars, regVars, rop, rid, rurl, rproc, rframe, rresult,
                   resp, itSize, itSeen, rdata, rstatus, nops, timeVars>>

\* self.thread = Thread(_process_stream); self.detection_thread =
\* Thread(_process_detection); both started.
StartSpawn(r) ==
    LET p == rproc[r]
        t == Min(FreeWorkers)
        d == Min(FreeWorkers \ {t})
    IN
    /\ rpc[r] = "start_spawn"
    /\ Cardinality(FreeWorkers) >= 2
    /\ thread' = [thread EXCEPT ![p] = t]
    /\ detection_thread' = [detection_thread EXCEPT ![p] = d]
    /\ wkind' = [wkind EXCEPT ![t] = "capture", ![d] = "analysis"]
    /\ wproc' = [wproc EXCEPT ![t] = p, ![d] = p]
    /\ wpc' = [wpc EXCEPT ![t] = "loop", ![d] = "loop"]
    /\ rpc' = [rpc EXCEPT ![r] = "start_time"]
    /\ UNCHANGED <<url, stream_id, running, cap, latest_frame, frame_queue,
                   result_queue, frame_count, total_frames, start_time, pos,
                   seq, published, drops, readFails>>
    /\ UNCHANGED <<wframe, wresult, wsince, regVars, rop, rid, rurl, rproc,
                   rret, rframe,
                   rresult, resp, itSize, itSeen,
                   rdata, rstatus, nops, timeVars>>

\* if self.is_local_file: self.start_time = time.time();  return True
StartSetTime(r) ==
    LET p == rproc[r] IN
    /\ rpc[r] = "start_time"
    /\ start_time' = [start_time EXCEPT ![p] = is_local_file(url[p]) \/ @]
    /\ IF is_local_file(url[p])
         THEN /\ startAt' = [startAt EXCEPT ![p] = now]
              /\ passAt' = [passAt EXCEPT ![p] = now]
         ELSE UNCHANGED <<startAt, passAt>>
    /\ rret' = [rret EXCEPT ![r] = "True"]
    /\ rpc' = [rpc EXCEPT ![r] = AfterStart(r)]
    /\ UNCHANGED <<url, stream_id, running, cap, thread, detection_thread,
                   latest_frame, frame_queue, result_queue, frame_count,
                   total_frames, pos, seq, published, drops, readFails>>
    /\ UNCHANGED <<workerVars, regVars, rop, rid, rurl, rproc, rframe, rresult,
                   resp, itSize, itSeen, rdata, rstatus,
                   nops, now>>

\* ----------------------------------------------------- StreamProcessor.stop
\* self.running = False
StopClear(r) ==
    LET p == rproc[r] IN
    /\ rpc[r] = "stop_clear"
    /\ running' = [running EXCEPT ![p] = FALSE]
    /\ rpc' = [rpc EXCEPT ![r] = "stop_join_thread"]
    /\ UNCHANGED <<url, stream_id, cap, thread, detection_thread, latest_frame,
                   frame_queue, result_queue, frame_count, total_frames,
                   start_time, pos, seq, published, drops, readFails>>
    /\ UNCHANGED <<workerVars, regVars, rop, rid, rurl, rproc, rret, rframe,
                   rresult, resp, itSize, itSeen,
                   rdata, rstatus, nops, timeVars>>

\* if self.thread and self.thread.is_alive(): self.thread.join(timeout=1.0)
\* The join returns when the worker has exited, or after the timeout while
\* the worker is still inside a blocking call.
StopJoinThread(r) ==
    LET p == rproc[r] IN
    /\ rpc[r] = "stop_join_thread"
    /\ ~is_alive(thread[p]) \/ Blocked(thread[p])
    /\ rpc' = [rpc EXCEPT ![r] = "stop_join_detection"]
    /\ UNCHANGED <<procVars, workerVars, regVars, rop, rid, rurl, rproc, rret,
                   rframe, rresult, resp, itSize, itSeen, rdata, rstatus,
                   nops, timeVars>>

\* if self.detection_thread and self.detection_thread.is_alive(): join(1.0)
\* __init__ does not set detection_thread: before the first successful start
\* the attribute read raises AttributeError.
StopJoinDetection(r) ==
    LET p == rproc[r] IN
    /\ rpc[r] = "stop_join_detection"
    /\ IF detection_thread[p] = Unset
         THEN Raise(r, "AttributeError")
         ELSE /\ ~is_alive(detection_thread[p]) \/ Blocked(detection_thread[p])
              /\ rpc' = [rpc EXCEPT ![r] = "stop_release"]
              /\ UNCHANGED resp
    /\ UNCHANGED <<procVars, workerVars, regVars, rop, rid, rurl, rproc, rret, rframe,
                   rresult, itSize, itSeen, rdata, rstatus, nops, timeVars>>

\* if self.cap: self.cap.release()
StopRelease(r) ==
    LET p == rproc[r] IN
    /\ rpc[r] = "stop_release"
    /\ cap' = [cap EXCEPT ![p] = IF @ = None THEN None ELSE "closed"]
    /\ rret' = [rret EXCEPT ![r] = None]
    /\ rpc' = [rpc EXCEPT ![r] = AfterStop(r)]
    /\ UNCHANGED <<url, stream_id, running, thread, detection_thread,
                   latest_frame, frame_queue, result_queue, frame_count,
                   total_frames, start_time, pos, seq, published, drops,
                   readFails>>
    /\ UNCHANGED <<workerVars, regVars, rop, rid, rurl, rproc, rframe, rresult,
                   resp, itSize, itSeen, rdata, rstatus, nops, timeVars>>

\* ------------------------------------------ StreamProcessor._process_stream
\* Mutant of CaptureLoop: the loop condition does not read self.running.
CaptureLoopIgnoresFlag(w) ==
    LET p == wproc[w] IN
    /\ wkind[w] = "capture"
    /\ wpc[w] = "loop"
    /\ wpc' = [wpc EXCEPT ![w] =
           IF is_local_file(url[p]) /\ ~start_time[p] THEN "loop"
           ELSE "read"]
    /\ UNCHANGED <<procVars, wkind, wproc, wframe, wresult, wsince,
                   regVars, reqVars, timeVars>>

\* while self.running:  and the pacing step of a file source, which reads
\* self.start_time (an AttributeError, caught by the loop's except, until
\* start has assigned it).  A video file has original_fps > 0.
CaptureLoop(w) ==
    LET p == wproc[w] IN
    /\ wkind[w] = "capture"
    /\ wpc[w] = "loop"
    /\ wpc' = [wpc EXCEPT ![w] =
           IF ~running[p] THEN "done"
           ELSE IF is_local_file(url[p]) /\ ~start_time[p] THEN "loop"
           ELSE "read"]
    /\ UNCHANGED <<procVars, wkind, wproc, wframe, wresult, wsince,
                   regVars, reqVars, timeVars>>

\* The same loop head with the clock.  For a video file (original_fps > 0):
\* target_time = self.frame_count / self.original_fps;
\* elapsed = time.time() - self.start_time;
\* if elapsed < target_time: time.sleep(target_time - elapsed)
\* One unit of the clock is 1/original_fps, so target_time is frame_count.
CapturePace(w) ==
    LET p == wproc[w] IN
    /\ wkind[w] = "capture"
    /\ wpc[w] = "loop"
    /\ wpc' = [wpc EXCEPT ![w] =
           IF ~running[p] THEN "done"
           ELSE IF is_local_file(url[p]) /\ ~start_time[p] THEN "loop"
           ELSE IF is_local_file(url[p]) /\ now - startAt[p] < frame_count[p]
             THEN "pace"
           ELSE "read"]
    /\ UNCHANGED <<procVars, wkind, wproc, wframe, wresult, wsince,
                   regVars, reqVars, timeVars>>

\* time.sleep(target_time - elapsed) returns when that time has passed.
CaptureWake(w) ==
    LET p == wproc[w] IN
    /\ wkind[w] = "capture"
    /\ wpc[w] = "pace"
    /\ now - startAt[p] >= frame_count[p]
    /\ wpc' = [wpc EXCEPT ![w] = "read"]
    /\ UNCHANGED <<procVars, wkind, wproc, wframe, wresult, wsince,
                   regVars, reqVars, timeVars>>

\* One frame period passes.
Tick ==
    /\ now < MaxTime
    /\ now' = now + 1
    /\ UNCHANGED <<procVars, workerVars, regVars, reqVars, startAt, passAt>>

\* Mutant of Offer: a full queue gives up its oldest frame for the new one.
OfferEvictOldest(q, f) ==
    IF Len(q) < FrameQueueMax THEN Append(q, f) ELSE Append(Tail(q), f)

\* The frame queue after the capture worker offers it frame f:
\* if not self.frame_queue.full(): self.frame_queue.put(frame)
Offer(q, f) == IF Len(q) < FrameQueueMax THEN Append(q, f) ELSE q

\* Mutant of CaptureRead: the end of a file seeks back to frame 0 but keeps
\* frame_count.
CaptureReadNoReset(w, budget, maxDrops) ==
    LET p == wproc[w]
        f == seq[p] + 1
        atEnd == is_local_file(url[p]) /\ pos[p] >= FileFrames
    IN
    /\ wkind[w] = "capture"
    /\ wpc[w] = "read"
    /\ \/ \* a frame is read
          /\ cap[p] = "open"
          /\ ~atEnd
          /\ seq[p] < budget
          /\ Len(frame_queue[p]) < FrameQueueMax \/ drops[p] < maxDrops
          /\ pos' = [pos EXCEPT ![p] = @ + 1]
          /\ frame_count' = [frame_count EXCEPT ![p] = @ + 1]
          /\ seq' = [seq EXCEPT ![p] = f]
          /\ latest_frame' = [latest_frame EXCEPT ![p] = f]
          /\ frame_queue' = [frame_queue EXCEPT ![p] = Offer(@, f)]
          /\ drops' = [drops EXCEPT ![p] =
                 IF Len(frame_queue[p]) < FrameQueueMax THEN @ ELSE @ + 1]
          /\ wpc' = [wpc EXCEPT ![w] = "loop"]
          /\ UNCHANGED <<cap, readFails, passAt>>
       \/ \* the read fails on a live source: release, sleep, then reopen
          /\ ~is_local_file(url[p])
          /\ cap[p] # "open" \/ readFails[p] < MaxReadFails
          /\ readFails' = [readFails EXCEPT ![p] =
                 IF cap[p] = "open" THEN @ + 1 ELSE @]
          /\ cap' = [cap EXCEPT ![p] = "closed"]
          /\ wpc' = [wpc EXCEPT ![w] = "reopen"]
          /\ UNCHANGED <<pos, frame_count, seq, latest_frame, frame_queue,
                         drops, passAt>>
       \/ \* the read fails on a file: seek to frame 0, frame_count = 0
          /\ is_local_file(url[p])
          /\ cap[p] # "open" \/ atEnd
          /\ pos' = [pos EXCEPT ![p] = IF cap[p] = "open" THEN 0 ELSE @]
          /\ passAt' = [passAt EXCEPT ![p] = now]
          /\ wpc' = [wpc EXCEPT ![w] = "loop"]
          /\ UNCHANGED <<cap, readFails, seq, latest_frame, frame_queue,
                         drops, frame_count>>
    /\ UNCHANGED <<url, stream_id, running, thread, detection_thread,
                   result_queue, total_frames, start_time, published>>
    /\ UNCHANGED <<wkind, wproc, wframe, wresult, wsince,
                   regVars, reqVars, now, startAt>>

\* Mutant of CaptureRead: self.frame_queue.put(frame) without the full()
\* test, which waits for room in the queue.
CaptureReadBlockingPut(w, budget, maxDrops) ==
    LET p == wproc[w]
        f == seq[p] + 1
        atEnd == is_local_file(url[p]) /\ pos[p] >= FileFrames
    IN
    /\ wkind[w] = "capture"
    /\ wpc[w] = "read"
    /\ \/ \* a frame is read
          /\ cap[p] = "open"
          /\ ~atEnd
          /\ seq[p] < budget
          /\ Len(frame_queue[p]) < FrameQueueMax
          /\ pos' = [pos EXCEPT ![p] = @ + 1]
          /\ frame_count' = [frame_count EXCEPT ![p] = @ + 1]
          /\ seq' = [seq EXCEPT ![p] = f]
          /\ latest_frame' = [latest_frame EXCEPT ![p] = f]
          /\ frame_queue' = [frame_queue EXCEPT ![p] = Append(@, f)]
          /\ wpc' = [wpc EXCEPT ![w] = "loop"]
          /\ UNCHANGED <<cap, readFails, passAt, drops>>
       \/ \* the read fails on a live source: release, sleep, then reopen
          /\ ~is_local_file(url[p])
          /\ cap[p] # "open" \/ readFails[p] < MaxReadFails
          /\ readFails' = [readFails EXCEPT ![p] =
                 IF cap[p] = "open" THEN @ + 1 ELSE @]
          /\ cap' = [cap EXCEPT ![p] = "closed"]
          /\ wpc' = [wpc EXCEPT ![w] = "reopen"]
          /\ UNCHANGED <<pos, frame_count, seq, latest_frame, frame_queue,
                         drops, passAt>>
       \/ \* the read fails on a file: seek to frame 0, frame_count = 0
          /\ is_local_file(url[p])
          /\ cap[p] # "open" \/ atEnd
          /\ pos' = [pos EXCEPT ![p] = IF cap[p] = "open" THEN 0 ELSE @]
          /\ frame_count' = [frame_count EXCEPT ![p] = 0]
          /\ passAt' = [passAt EXCEPT ![p] = now]
          /\ wpc' = [wpc EXCEPT ![w] = "loop"]
          /\ UNCHANGED <<cap, readFails, seq, latest_frame, frame_queue,
                         drops>>
    /\ UNCHANGED <<url, stream_id, running, thread, detection_thread,
                   result_queue, total_frames, start_time, published>>
    /\ UNCHANGED <<wkind, wproc, wframe, wresult, wsince,
                   regVars, reqVars, now, startAt>>

\* success, frame = self.cap.read() and the rest of the iteration.  The
\* source delivers at most `budget` frames, and the analysis worker falls
\* behind a full frame queue at most `maxDrops` times.
CaptureRead(w, budget, maxDrops) ==
    LET p == wproc[w]
        f == seq[p] + 1
        atEnd == is_local_file(url[p]) /\ pos[p] >= FileFrames
    IN
    /\ wkind[w] = "capture"
    /\ wpc[w] = "read"
    /\ \/ \* a frame is read
          /\ cap[p] = "open"
          /\ ~atEnd
          /\ seq[p] < budget
          /\ Len(frame_queue[p]) < FrameQueueMax \/ drops[p] < maxDrops
          /\ pos' = [pos EXCEPT ![p] = @ + 1]
          /\ frame_count' = [frame_count EXCEPT ![p] = @ + 1]
          /\ seq' = [seq EXCEPT ![p] = f]
          /\ latest_frame' = [latest_frame EXCEPT ![p] = f]
          /\ frame_queue' = [frame_queue EXCEPT ![p] = Offer(@, f)]
          /\ drops' = [drops EXCEPT ![p] =
                 IF Len(frame_queue[p]) < FrameQueueMax THEN @ ELSE @ + 1]
          /\ wpc' = [wpc EXCEPT ![w] = "loop"]
          /\ UNCHANGED <<cap, readFails, passAt>>
       \/ \* the read fails on a live source: release, sleep, then reopen
          /\ ~is_local_file(url[p])
          /\ cap[p] # "open" \/ readFails[p] < MaxReadFails
          /\ readFails' = [readFails EXCEPT ![p] =
                 IF cap[p] = "open" THEN @ + 1 ELSE @]
          /\ cap' = [cap EXCEPT ![p] = "closed"]
          /\ wpc' = [wpc EXCEPT ![w] = "reopen"]
          /\ UNCHANGED <<pos, frame_count, seq, latest_frame, frame_queue,
                         drops, passAt>>
       \/ \* the read fails on a file: seek to frame 0, frame_count = 0
          /\ is_local_file(url[p])
          /\ cap[p] # "open" \/ atEnd
          /\ pos' = [pos EXCEPT ![p] = IF cap[p] = "open" THEN 0 ELSE @]
          /\ frame_count' = [frame_count EXCEPT ![p] = 0]
          /\ passAt' = [passAt EXCEPT ![p] = now]
          /\ wpc' = [wpc EXCEPT ![w] = "loop"]
          /\ UNCHANGED <<cap, readFails, seq, latest_frame, frame_queue,
                         drops>>
    /\ UNCHANGED <<url, stream_id, running, thread, detection_thread,
                   result_queue, total_frames, start_time, published>>
    /\ UNCHANGED <<wkind, wproc, wframe, wresult, wsince,
                   regVars, reqVars, now, startAt>>

\* cv2.VideoCapture(self.url) on a reconnect: the source is back, or not.
ReopenOutcomes == {"open", "closed"}

\* Mutant of CaptureReopen: a reconnect that fails ends the capture worker.
CaptureReopenGivesUp(w) ==
    LET p == wproc[w] IN
    /\ wkind[w] = "capture"
    /\ wpc[w] = "reopen"
    /\ \E c \in ReopenOutcomes :
          /\ cap' = [cap EXCEPT ![p] = c]
          /\ wpc' = [wpc EXCEPT ![w] = IF c = "open" THEN "loop" ELSE "done"]
    /\ pos' = [pos EXCEPT ![p] = 0]
    /\ UNCHANGED <<url, stream_id, running, thread, detection_thread,
                   latest_frame, frame_queue, result_queue, frame_count,
                   total_frames, start_time, seq, published, drops, readFails>>
    /\ UNCHANGED <<wkind, wproc, wframe, wresult, wsince,
                   regVars, reqVars, timeVars>>

\* time.sleep(1); self.cap = cv2.VideoCapture(self.url); continue
CaptureReopen(w) ==
    LET p == wproc[w] IN
    /\ wkind[w] = "capture"
    /\ wpc[w] = "reopen"
    /\ \E c \in ReopenOutcomes : cap' = [cap EXCEPT ![p] = c]
    /\ pos' = [pos EXCEPT ![p] = 0]
    /\ wpc' = [wpc EXCEPT ![w] = "loop"]
    /\ UNCHANGED <<url, stream_id, running, thread, detection_thread,
                   latest_frame, frame_queue, result_queue, frame_count,
                   total_frames, start_time, seq, published, drops, readFails>>
    /\ UNCHANGED <<wkind, wproc, wframe, wresult, wsince,
                   regVars, reqVars, timeVars>>

\* --------------------------------------- StreamProcessor._process_detection
\* Mutant of AnalysisLoop: the newest frame of the queue is taken, not the
\* oldest.
AnalysisLoopTakesNewest(w) ==
    LET p == wproc[w] IN
    /\ wkind[w] = "analysis"
    /\ wpc[w] = "loop"
    /\ IF ~running[p]
         THEN /\ wpc' = [wpc EXCEPT ![w] = "done"]
              /\ UNCHANGED <<frame_queue, wframe, wsince>>
         ELSE IF frame_queue[p] = <<>>
         THEN UNCHANGED <<wpc, frame_queue, wframe, wsince>>
         ELSE /\ wframe' = [wframe EXCEPT ![w] =
                     frame_queue[p][Len(frame_queue[p])]]
              /\ frame_queue' = [frame_queue EXCEPT ![p] =
                     SubSeq(@, 1, Len(@) - 1)]
              /\ wsince' = [wsince EXCEPT ![w] = TRUE]
              /\ wpc' = [wpc EXCEPT ![w] = "detect"]
    /\ UNCHANGED <<url, stream_id, running, cap, thread, detection_thread,
                   latest_frame, result_queue, frame_count, total_frames,
                   start_time, pos, seq, published, drops, readFails>>
    /\ UNCHANGED <<wkind, wproc, wresult, regVars, reqVars, timeVars>>

\* while self.running: if self.frame_queue.empty(): sleep, continue;
\* frame = self.frame_queue.get()
AnalysisLoop(w) ==
    LET p == wproc[w] IN
    /\ wkind[w] = "analysis"
    /\ wpc[w] = "loop"
    /\ IF ~running[p]
         THEN /\ wpc' = [wpc EXCEPT ![w] = "done"]
              /\ UNCHANGED <<frame_queue, wframe, wsince>>
         ELSE IF frame_queue[p] = <<>>
         THEN UNCHANGED <<wpc, frame_queue, wframe, wsince>>
         ELSE /\ wframe' = [wframe EXCEPT ![w] = Head(frame_queue[p])]
              /\ frame_queue' = [frame_queue EXCEPT ![p] = Tail(@)]
              /\ wsince' = [wsince EXCEPT ![w] = TRUE]
              /\ wpc' = [wpc EXCEPT ![w] = "detect"]
    /\ UNCHANGED <<url, stream_id, running, cap, thread, detection_thread,
                   latest_frame, result_queue, frame_count, total_frames,
                   start_time, pos, seq, published, drops, readFails>>
    /\ UNCHANGED <<wkind, wproc, wresult, regVars, reqVars, timeVars>>

\* The detectors, consumed through detect(frame): what each returns on the
\* frame with capture number f, as the list of the labels of its detections
\* (0 to 2 regions of motion; nothing, a person, or a car and a person).
Rep(x, n) == [i \in 1..n |-> x]
motion_detect(f) == Rep("motion", f % 3)
object_detect(f) ==
    IF f % 2 = 0 THEN <<>>
    ELSE IF f % 4 = 1 THEN <<"person">>
    ELSE <<"car", "person">>

\* for detection in ...: detection["type"] = t
Tag(labels, t) == [i \in DOMAIN labels |-> [label |-> labels[i], type |-> t]]

\* Mutant of Extend: the detections of a detector are put in front.
ExtendFront(ds, new) == new \o ds

\* results["detections"].append(detection) for each detection of a detector
Extend(ds, new) == ds \o new

\* if self.config["motion"]["enabled"]: the motion detections, tagged
MotionPart(f, m) == IF m THEN Tag(motion_detect(f), "motion") ELSE <<>>
\* if self.config["detection"]["enabled"]: the object detections, tagged
ObjectPart(f, d) == IF d THEN Tag(object_detect(f), "person") ELSE <<>>

\* results["detections"] for frame f when config["motion"]["enabled"] is m
\* and config["detection"]["enabled"] is d
Detections(f, m, d) ==
    Extend(Extend(<<>>, MotionPart(f, m)), ObjectPart(f, d))

\* The AnalysisResult built from frame f (its annotated frame is f's copy)
\* under these flags; Result(f) is the one built with both detectors
\* enabled, as CONFIG starts; NoResult stands for None.
ResultWith(f, m, d) == [frame |-> f, detections |-> Detections(f, m, d)]
Result(f) == ResultWith(f, TRUE, TRUE)
NoResult == [frame |-> NoFrame, detections |-> <<>>]

\* Mutant of AnalysisDetect: a full result queue rejects the new result.
AnalysisDetectRejectNew(w) ==
    LET p == wproc[w]
        built == ResultWith(wframe[w], motion_enabled, detection_enabled)
    IN
    /\ wkind[w] = "analysis"
    /\ wpc[w] = "detect"
    /\ IF Len(result_queue[p]) < ResultQueueMax
         THEN /\ result_queue' = [result_queue EXCEPT ![p] = Append(@, built)]
              /\ published' = [published EXCEPT ![p] = Append(@, wframe[w])]
         ELSE UNCHANGED <<result_queue, published>>
    /\ wframe' = [wframe EXCEPT ![w] = 0]
    /\ wpc' = [wpc EXCEPT ![w] = "loop"]
    /\ UNCHANGED <<url, stream_id, running, cap, thread, detection_thread,
                   latest_frame, frame_queue, frame_count, total_frames,
                   start_time, pos, seq, drops, readFails>>
    /\ UNCHANGED <<wkind, wproc, wresult, wsince, regVars, reqVars,
                   timeVars>>

\* The enabled detectors and the annotation run (self.config is the dict
\* CONFIG itself), then the result is stored:
\* if not self.result_queue.full(): put(results)  else: get() ... put below
\* Mutant of AnalysisDetect: a full result queue is emptied, not relieved
\* of its oldest result, before the new result is put.
AnalysisDetectDrains(w) ==
    LET p == wproc[w]
        built == ResultWith(wframe[w], motion_enabled, detection_enabled)
    IN
    /\ wkind[w] = "analysis"
    /\ wpc[w] = "detect"
    /\ IF Len(result_queue[p]) < ResultQueueMax
         THEN /\ result_queue' = [result_queue EXCEPT ![p] = Append(@, built)]
              /\ published' = [published EXCEPT ![p] = Append(@, wframe[w])]
              /\ wframe' = [wframe EXCEPT ![w] = 0]
              /\ wpc' = [wpc EXCEPT ![w] = "loop"]
              /\ UNCHANGED wresult
         ELSE /\ result_queue' = [result_queue EXCEPT ![p] = <<>>]
              /\ wresult' = [wresult EXCEPT ![w] = built]
              /\ wpc' = [wpc EXCEPT ![w] = "evicted"]
              /\ UNCHANGED <<published, wframe>>
    /\ UNCHANGED <<url, stream_id, running, cap, thread, detection_thread,
                   latest_frame, frame_queue, frame_count, total_frames,
                   start_time, pos, seq, drops, readFails>>
    /\ UNCHANGED <<wkind, wproc, wsince, regVars, reqVars, timeVars>>

AnalysisDetect(w) ==
    LET p == wproc[w]
        built == ResultWith(wframe[w], motion_enabled, detection_enabled)
    IN
    /\ wkind[w] = "analysis"
    /\ wpc[w] = "detect"
    /\ IF Len(result_queue[p]) < ResultQueueMax
         THEN /\ result_queue' = [result_queue EXCEPT ![p] = Append(@, built)]
              /\ published' = [published EXCEPT ![p] = Append(@, wframe[w])]
              /\ wframe' = [wframe EXCEPT ![w] = 0]
              /\ wpc' = [wpc EXCEPT ![w] = "loop"]
              /\ UNCHANGED wresult
         ELSE /\ result_queue' = [result_queue EXCEPT ![p] = Tail(@)]
              /\ wresult' = [wresult EXCEPT ![w] = built]
              /\ wpc' = [wpc EXCEPT ![w] = "evicted"]
              /\ UNCHANGED <<published, wframe>>
    /\ UNCHANGED <<url, stream_id, running, cap, thread, detection_thread,
                   latest_frame, frame_queue, frame_count, total_frames,
                   start_time, pos, seq, drops, readFails>>
    /\ UNCHANGED <<wkind, wproc, wsince, regVars, reqVars, timeVars>>

\* self.motion_detector.detect(frame) raises (MotionDetector.detect has no
\* handler of its own): the exception reaches the except of the loop, which
\* logs it and sleeps 0.1 s; the frame taken from the queue is gone and no
\* result is stored.  (YOLODetector.detect catches its own exceptions and
\* returns []: that iteration is AnalysisDetect.)
AnalysisDetectRaises(w) ==
    LET p == wproc[w] IN
    /\ wkind[w] = "analysis"
    /\ wpc[w] = "detect"
    /\ wframe' = [wframe EXCEPT ![w] = 0]
    /\ wpc' = [wpc EXCEPT ![w] = "loop"]
    /\ UNCHANGED <<procVars, wkind, wproc, wresult, wsince, regVars, reqVars,
                   timeVars>>

\* The same iteration in finer steps, for runs in which CONFIG changes while
\* a frame is analysed.  First results = {"timestamp": ..., "detections": []}
\* and the motion detector, if its flag is set when it is read.
AnalysisMotion(w) ==
    LET p == wproc[w] IN
    /\ wkind[w] = "analysis"
    /\ wpc[w] = "detect"
    /\ wresult' = [wresult EXCEPT ![w] =
           [frame |-> NoFrame,
            detections |-> Extend(<<>>, MotionPart(wframe[w], motion_enabled))]]
    /\ wpc' = [wpc EXCEPT ![w] = "detect_object"]
    /\ UNCHANGED <<procVars, wkind, wproc, wframe, wsince, regVars, reqVars,
                   timeVars>>

\* Mutant of AnalysisObject: the object detector runs whatever its flag.
AnalysisObjectAlways(w) ==
    LET p == wproc[w]
        built == [frame |-> wframe[w],
                  detections |-> Extend(wresult[w].detections,
                                        ObjectPart(wframe[w], TRUE))]
    IN
    /\ wkind[w] = "analysis"
    /\ wpc[w] = "detect_object"
    /\ Len(result_queue[p]) < ResultQueueMax
    /\ result_queue' = [result_queue EXCEPT ![p] = Append(@, built)]
    /\ published' = [published EXCEPT ![p] = Append(@, wframe[w])]
    /\ wframe' = [wframe EXCEPT ![w] = 0]
    /\ wresult' = [wresult EXCEPT ![w] = NoResult]
    /\ wpc' = [wpc EXCEPT ![w] = "loop"]
    /\ UNCHANGED <<url, stream_id, running, cap, thread, detection_thread,
                   latest_frame, frame_queue, frame_count, total_frames,
                   start_time, pos, seq, drops, readFails>>
    /\ UNCHANGED <<wkind, wproc, wsince, regVars, reqVars, timeVars>>

\* Then the object detector, if its flag is set when it is read, the
\* annotated frame, and the result is stored.
AnalysisObject(w) ==
    LET p == wproc[w]
        built == [frame |-> wframe[w],
                  detections |-> Extend(wresult[w].detections,
                                        ObjectPart(wframe[w],
                                                   detection_enabled))]
    IN
    /\ wkind[w] = "analysis"
    /\ wpc[w] = "detect_object"
    /\ IF Len(result_queue[p]) < ResultQueueMax
         THEN /\ result_queue' = [result_queue EXCEPT ![p] = Append(@, built)]
              /\ published' = [published EXCEPT ![p] = Append(@, wframe[w])]
              /\ wframe' = [wframe EXCEPT ![w] = 0]
              /\ wresult' = [wresult EXCEPT ![w] = NoResult]
              /\ wpc' = [wpc EXCEPT ![w] = "loop"]
         ELSE /\ result_queue' = [result_queue EXCEPT ![p] = Tail(@)]
              /\ wresult' = [wresult EXCEPT ![w] = built]
              /\ wpc' = [wpc EXCEPT ![w] = "evicted"]
              /\ UNCHANGED <<published, wframe>>
    /\ UNCHANGED <<url, stream_id, running, cap, thread, detection_thread,
                   latest_frame, frame_queue, frame_count, total_frames,
                   start_time, pos, seq, drops, readFails>>
    /\ UNCHANGED <<wkind, wproc, wsince, regVars, reqVars, timeVars>>

\* self.result_queue.put(results) after the oldest result was removed
AnalysisPut(w) ==
    LET p == wproc[w] IN
    /\ wkind[w] = "analysis"
    /\ wpc[w] = "evicted"
    /\ Len(result_queue[p]) < ResultQueueMax
    /\ result_queue' = [result_queue EXCEPT ![p] = Append(@, wresult[w])]
    /\ published' = [published EXCEPT ![p] = Append(@, wframe[w])]
    /\ wframe' = [wframe EXCEPT ![w] = 0]
    /\ wresult' = [wresult EXCEPT ![w] = NoResult]
    /\ wpc' = [wpc EXCEPT ![w] = "loop"]
    /\ UNCHANGED <<url, stream_id, running, cap, thread, detection_thread,
                   latest_frame, frame_queue, frame_count, total_frames,
                   start_time, pos, seq, drops, readFails>>
    /\ UNCHANGED <<wkind, wproc, wsince, regVars, reqVars, timeVars>>

\* --------------------------- StreamProcessor.get_latest_frame / _result
AfterRead(r) == IF rop[r] = "snapshot" THEN "snapshot_send"
                ELSE IF rop[r] = "video_feed" THEN "feed_yield"
                ELSE "ret"
AfterResult(r) == IF rop[r] = "snapshot" THEN "snapshot_result"
                  ELSE IF rop[r] = "video_feed" THEN "feed_result"
                  ELSE IF rop[r] = "detections" THEN "detections_result"
                  ELSE "ret"

\* if self.latest_frame is None: return np.zeros(...);  return latest_frame
get_latest_frame(p) == IF latest_frame[p] = NoFrame THEN Blank ELSE latest_frame[p]

GetLatestFrame(r) ==
    /\ rpc[r] = "get_latest_frame"
    /\ rframe' = [rframe EXCEPT ![r] = get_latest_frame(rproc[r])]
    /\ rpc' = [rpc EXCEPT ![r] = AfterRead(r)]
    /\ UNCHANGED <<procVars, workerVars, regVars, rop, rid, rurl, rproc, rret,
                   rresult, resp, itSize, itSeen,
                   rdata, rstatus, nops, timeVars>>

\* if self.result_queue.empty(): return None
GetLatestResultEmpty(r) ==
    /\ rpc[r] = "get_latest_result"
    /\ IF result_queue[rproc[r]] = <<>>
         THEN /\ rresult' = [rresult EXCEPT ![r] = NoResult]
              /\ rpc' = [rpc EXCEPT ![r] = AfterResult(r)]
         ELSE /\ rpc' = [rpc EXCEPT ![r] = "get_latest_result_peek"]
              /\ UNCHANGED rresult
    /\ UNCHANGED <<procVars, workerVars, regVars, rop, rid, rurl, rproc, rret,
                   rframe, resp, itSize, itSeen,
                   rdata, rstatus, nops, timeVars>>

\* Mutant of Newest: the head of the deque, as a get() would return it.
Oldest(q) == q[1]

\* self.result_queue.queue[-1]
Newest(q) == q[Len(q)]

\* return self.result_queue.queue[-1]   (IndexError on an empty deque)
GetLatestResultPeek(r) ==
    /\ rpc[r] = "get_latest_result_peek"
    /\ IF result_queue[rproc[r]] = <<>>
         THEN /\ Raise(r, "IndexError")
              /\ UNCHANGED rresult
         ELSE /\ rresult' = [rresult EXCEPT ![r] =
                     Newest(result_queue[rproc[r]])]
              /\ rpc' = [rpc EXCEPT ![r] = AfterResult(r)]
              /\ UNCHANGED resp
    /\ UNCHANGED <<procVars, workerVars, regVars, rop, rid, rurl, rproc, rret,
                   rframe, itSize, itSeen, rdata, rstatus, nops, timeVars>>

\* ------------------------------------------------------------- the callers
\* A thread calls one of the methods `ops` of a constructed StreamProcessor
\* directly; start is called on a processor that was not started before.
StartOnly == {"start"}
StartAndRead == {"start", "get_latest_frame", "get_latest_result"}
Entry(op) == IF op = "start" THEN "start_flag"
             ELSE IF op = "stop" THEN "stop_clear"
             ELSE op

PipeCall(r, ops) ==
    /\ rpc[r] = "idle"
    /\ \E p \in Procs \ FreeProcs, op \in ops :
          /\ op = "start" => thread[p] = 0 /\ Cardinality(FreeWorkers) >= 2
          /\ rop' = [rop EXCEPT ![r] = op]
          /\ rproc' = [rproc EXCEPT ![r] = p]
          /\ rpc' = [rpc EXCEPT ![r] = Entry(op)]
    /\ UNCHANGED <<procVars, workerVars, regVars, rid, rurl, rret, rframe,
                   rresult, resp, itSize, itSeen,
                   rdata, rstatus, nops, timeVars>>

\* A thread calls start() or stop() on a constructed StreamProcessor, in any
\* order and any number of times (as many starts as there are threads left
\* to spawn).
PipeCallAgain(r, ops) ==
    /\ rpc[r] = "idle"
    /\ \E p \in Procs \ FreeProcs, op \in ops :
          /\ op = "start" => Cardinality(FreeWorkers) >= 2
          /\ rop' = [rop EXCEPT ![r] = op]
          /\ rproc' = [rproc EXCEPT ![r] = p]
          /\ rpc' = [rpc EXCEPT ![r] = Entry(op)]
    /\ UNCHANGED <<procVars, workerVars, regVars, rid, rurl, rret, rframe,
                   rresult, resp, itSize, itSeen,
                   rdata, rstatus, nops, timeVars>>

\* get_status: "progress": (self.frame_count / self.total_frames) * 100
\* if self.total_frames > 0 else 0, in whole percent
progress(p) ==
    IF total_frames[p] > 0 THEN (frame_count[p] * 100) \div total_frames[p]
    ELSE 0

\* The call or the request is over; the thread is free for the next one.
Return(r) ==
    /\ rpc[r] = "ret"
    /\ rpc' = [rpc EXCEPT ![r] = "idle"]
    /\ rop' = [rop EXCEPT ![r] = None]
    /\ rid' = [rid EXCEPT ![r] = None]
    /\ rurl' = [rurl EXCEPT ![r] = NoUrl]
    /\ rproc' = [rproc EXCEPT ![r] = 0]
    /\ rret' = [rret EXCEPT ![r] = None]
    /\ rframe' = [rframe EXCEPT ![r] = NoFrame]
    /\ rresult' = [rresult EXCEPT ![r] = NoResult]
    /\ resp' = [resp EXCEPT ![r] = None]
    /\ itSize' = [itSize EXCEPT ![r] = 0]
    /\ itSeen' = [itSeen EXCEPT ![r] = {}]
    /\ rdata' = [rdata EXCEPT ![r] = NoData]
    /\ rstatus' = [rstatus EXCEPT ![r] = NoData]
    /\ UNCHANGED <<procVars, workerVars, regVars, nops, timeVars>>

\* ------------------------------------------------- the handlers: routes.py
\* discover_videos(): the video files of the videos directory, by id.
VideoIds == {"a"}
VideoUrl(id) == "file"

Registered == {i \in StreamIds : streams[i] # 0}

RouteOps == {"add_stream", "load_video", "delete_stream", "get_streams",
             "snapshot"}
RouteEntry(op) ==
    CASE op = "add_stream" -> "add_check"
      [] op = "load_video" -> "load_check"
      [] op = "delete_stream" -> "delete_check"
      [] op = "get_streams" -> "list_begin"
      [] op = "snapshot" -> "snapshot_check"
      [] op = "video_feed" -> "feed_check"
      [] op = "status" -> "status_check"
      [] op = "detections" -> "detections_check"
      [] op = "update_config" -> "config_check"

\* Requests that will still construct a StreamProcessor.
CreatePcs == {"add_check", "load_check", "create_construct"}
Constructing == {r \in Reqs : rpc[r] \in CreatePcs}

\* A request arrives: add_stream takes the id and the url of its JSON body
\* (NoUrl: no 'url' key), the other handlers the id of the path.
RequestUrls == Urls \cup {NoUrl}
Begin(r, ops, ids, urls, budget) ==
    /\ rpc[r] = "idle"
    /\ nops < budget
    /\ \E op \in ops, id \in ids, u \in urls :
          /\ op # "add_stream" => u = NoUrl
          /\ op \in CreateOps =>
                 Cardinality(FreeProcs) > Cardinality(Constructing)
          /\ rop' = [rop EXCEPT ![r] = op]
          /\ rid' = [rid EXCEPT ![r] = id]
          /\ rurl' = [rurl EXCEPT ![r] = u]
          /\ rpc' = [rpc EXCEPT ![r] = RouteEntry(op)]
    /\ nops' = nops + 1
    /\ UNCHANGED <<procVars, workerVars, regVars, rproc, rret, rframe,
                   rresult, resp, itSize, itSeen, rdata,
                   rstatus, timeVars>>

\* The handler returns the response `answer`.
Respond(r, answer) ==
    /\ rpc' = [rpc EXCEPT ![r] = "ret"]
    /\ resp' = [resp EXCEPT ![r] = answer]

\* int(time.time()): whole seconds of the clock
int_time == now \div Fps

\* stream_id = data.get('id', str(int(time.time())))
StreamIdOf(r) == IF rid[r] = None THEN str(int_time) ELSE rid[r]

\* Mutant of AddStreamCheck: the membership test on streams is left out.
AddStreamCheckNoDup(r) ==
    /\ rpc[r] = "add_check"
    /\ IF rurl[r] = NoUrl
         THEN /\ Respond(r, "UrlRequired")
              /\ UNCHANGED rid
         ELSE /\ rid' = [rid EXCEPT ![r] = StreamIdOf(r)]
              /\ rpc' = [rpc EXCEPT ![r] = "create_construct"]
              /\ UNCHANGED resp
    /\ UNCHANGED <<procVars, workerVars, regVars, rop, rurl, rproc, rret,
                   rframe, rresult, itSize, itSeen,
                   rdata, rstatus, nops, timeVars>>

\* add_stream: 'url' missing -> 400; the id of the body or one made from the
\* clock; stream_id in streams -> 400
AddStreamCheck(r) ==
    /\ rpc[r] = "add_check"
    /\ IF rurl[r] = NoUrl
         THEN /\ Respond(r, "UrlRequired")
              /\ UNCHANGED rid
         ELSE /\ rid' = [rid EXCEPT ![r] = StreamIdOf(r)]
              /\ IF streams[StreamIdOf(r)] # 0
                   THEN Respond(r, "AlreadyExists")
                   ELSE /\ rpc' = [rpc EXCEPT ![r] = "create_construct"]
                        /\ UNCHANGED resp
    /\ UNCHANGED <<procVars, workerVars, regVars, rop, rurl, rproc, rret,
                   rframe, rresult, itSize, itSeen,
                   rdata, rstatus, nops, timeVars>>

\* An add_stream request whose JSON body has a 'url' and no 'id'.
BeginNoId(r, urls, budget) ==
    /\ rpc[r] = "idle"
    /\ nops < budget
    /\ Cardinality(FreeProcs) > Cardinality(Constructing)
    /\ \E u \in urls :
          /\ rop' = [rop EXCEPT ![r] = "add_stream"]
          /\ rid' = [rid EXCEPT ![r] = None]
          /\ rurl' = [rurl EXCEPT ![r] = u]
          /\ rpc' = [rpc EXCEPT ![r] = RouteEntry("add_stream")]
    /\ nops' = nops + 1
    /\ UNCHANGED <<procVars, workerVars, regVars, rproc, rret, rframe,
                   rresult, resp, itSize, itSeen, rdata,
                   rstatus, timeVars>>

\* load_video: video not discovered -> 404; video_id in streams -> 400
LoadVideoCheck(r) ==
    /\ rpc[r] = "load_check"
    /\ IF rid[r] \notin VideoIds
         THEN /\ Respond(r, "VideoNotFound")
              /\ UNCHANGED rurl
       ELSE IF streams[rid[r]] # 0
         THEN /\ Respond(r, "AlreadyExists")
              /\ UNCHANGED rurl
       ELSE /\ rurl' = [rurl EXCEPT ![r] = VideoUrl(rid[r])]
            /\ rpc' = [rpc EXCEPT ![r] = "create_construct"]
            /\ UNCHANGED resp
    /\ UNCHANGED <<procVars, workerVars, regVars, rop, rid, rproc, rret,
                   rframe, rresult, itSize, itSeen,
                   rdata, rstatus, nops, timeVars>>

\* processor = StreamProcessor(stream_id, url, CONFIG, object_detector), with
\* a constructor that takes the shared detector and sets the fields of
\* StreamProcessor.__init__.
CreateConstruct(r) ==
    /\ rpc[r] = "create_construct"
    /\ FreeProcs # {}
    /\ InitProcessor(Min(FreeProcs), rid[r], rurl[r])
    /\ rproc' = [rproc EXCEPT ![r] = Min(FreeProcs)]
    /\ rpc' = [rpc EXCEPT ![r] = "start_flag"]
    /\ UNCHANGED <<workerVars, regVars, rop, rid, rurl, rret, rframe, rresult,
                   resp, itSize, itSeen, rdata, rstatus, nops, timeVars>>

\* processor = StreamProcessor(stream_id, url, CONFIG, object_detector), with
\* the constructor of src/vision.py, __init__(self, stream_id, url, config):
\* the fourth argument raises TypeError.
CreateConstructRaises(r) ==
    /\ rpc[r] = "create_construct"
    /\ Raise(r, "TypeError")
    /\ UNCHANGED <<procVars, workerVars, regVars, rop, rid, rurl, rproc, rret,
                   rframe, rresult, itSize, itSeen,
                   rdata, rstatus, nops, timeVars>>

\* Mutant of CreateRegister: the result of start() is not looked at.
CreateRegisterAlways(r) ==
    /\ rpc[r] = "create_started"
    /\ streams' = [streams EXCEPT ![rid[r]] = rproc[r]]
    /\ rpc' = [rpc EXCEPT ![r] = "create_config"]
    /\ UNCHANGED <<procVars, workerVars, configStreams, motion_enabled,
                   detection_enabled, rop, rid, rurl, rproc,
                   rret, rframe, rresult, resp, itSize, itSeen,
                   rdata, rstatus, nops, timeVars>>

\* if not success: return 400;  streams[stream_id] = processor
CreateRegister(r) ==
    /\ rpc[r] = "create_started"
    /\ IF rret[r] # "True"
         THEN /\ Respond(r, "StartFailed")
              /\ UNCHANGED streams
         ELSE /\ streams' = [streams EXCEPT ![rid[r]] = rproc[r]]
              /\ rpc' = [rpc EXCEPT ![r] = "create_config"]
              /\ UNCHANGED resp
    /\ UNCHANGED <<procVars, workerVars, configStreams, motion_enabled,
                   detection_enabled, rop, rid, rurl, rproc,
                   rret, rframe, rresult, itSize, itSeen,
                   rdata, rstatus, nops, timeVars>>

\* CONFIG["streams"][stream_id] = {"url": url};  return started
CreateConfig(r) ==
    /\ rpc[r] = "create_config"
    /\ configStreams' = [configStreams EXCEPT ![rid[r]] = rurl[r]]
    /\ Respond(r, "started")
    /\ UNCHANGED <<procVars, workerVars, streams, motion_enabled,
                   detection_enabled, rop, rid, rurl, rproc, rret,
                   rframe, rresult, itSize, itSeen,
                   rdata, rstatus, nops, timeVars>>

\* delete_stream: if stream_id not in streams: return 404
DeleteCheck(r) ==
    /\ rpc[r] = "delete_check"
    /\ IF streams[rid[r]] = 0 THEN Respond(r, "NotFound")
       ELSE /\ rpc' = [rpc EXCEPT ![r] = "delete_lookup"]
            /\ UNCHANGED resp
    /\ UNCHANGED <<procVars, workerVars, regVars, rop, rid, rurl, rproc, rret,
                   rframe, rresult, itSize, itSeen,
                   rdata, rstatus, nops, timeVars>>

\* streams[stream_id].stop(): the subscript (KeyError when the key is gone)
DeleteLookup(r) ==
    /\ rpc[r] = "delete_lookup"
    /\ IF streams[rid[r]] = 0
         THEN /\ Raise(r, "KeyError")
              /\ UNCHANGED rproc
         ELSE /\ rproc' = [rproc EXCEPT ![r] = streams[rid[r]]]
              /\ rpc' = [rpc EXCEPT ![r] = "stop_clear"]
              /\ UNCHANGED resp
    /\ UNCHANGED <<procVars, workerVars, regVars, rop, rid, rurl, rret, rframe,
                   rresult, itSize, itSeen, rdata, rstatus, nops, timeVars>>

\* del streams[stream_id]   (KeyError when the key is gone)
DeleteRemove(r) ==
    /\ rpc[r] = "delete_remove"
    /\ IF streams[rid[r]] = 0
         THEN /\ Raise(r, "KeyError")
              /\ UNCHANGED streams
         ELSE /\ streams' = [streams EXCEPT ![rid[r]] = 0]
              /\ rpc' = [rpc EXCEPT ![r] = "delete_config"]
              /\ UNCHANGED resp
    /\ UNCHANGED <<procVars, workerVars, configStreams, motion_enabled,
                   detection_enabled, rop, rid, rurl, rproc,
                   rret, rframe, rresult, itSize, itSeen,
                   rdata, rstatus, nops, timeVars>>

\* if stream_id in CONFIG["streams"]: del ...;  return deleted
DeleteConfig(r) ==
    /\ rpc[r] = "delete_config"
    /\ configStreams' = [configStreams EXCEPT ![rid[r]] = NoUrl]
    /\ Respond(r, "deleted")
    /\ UNCHANGED <<procVars, workerVars, streams, motion_enabled,
                   detection_enabled, rop, rid, rurl, rproc, rret,
                   rframe, rresult, itSize, itSeen,
                   rdata, rstatus, nops, timeVars>>

\* What the handler returns after its loop over streams.items().
AfterItems(r) == IF rop[r] = "update_config" THEN "config" ELSE "statuses"

\* get_streams: for stream_id, processor in streams.items(): the iterator
\* is created and remembers the size of the dict.
ListBegin(r) ==
    /\ rpc[r] = "list_begin"
    /\ itSize' = [itSize EXCEPT ![r] = Cardinality(Registered)]
    /\ itSeen' = [itSeen EXCEPT ![r] = {}]
    /\ rpc' = [rpc EXCEPT ![r] = "list_next"]
    /\ UNCHANGED <<procVars, workerVars, regVars, rop, rid, rurl, rproc, rret,
                   rframe, rresult, resp, rdata, rstatus, nops, timeVars>>

\* The iterator's next: RuntimeError (dictionary changed size during
\* iteration) when len(streams) differs from the remembered size; else the
\* next entry, whose get_status() is appended; else the response.
ListNext(r) ==
    /\ rpc[r] = "list_next"
    /\ IF Cardinality(Registered) # itSize[r]
         THEN /\ Raise(r, "RuntimeError")
              /\ UNCHANGED itSeen
       ELSE IF Registered \ itSeen[r] # {}
         THEN /\ \E i \in Registered \ itSeen[r] :
                     itSeen' = [itSeen EXCEPT ![r] = @ \cup {i}]
              /\ UNCHANGED <<rpc, resp>>
       ELSE /\ Respond(r, AfterItems(r))
            /\ UNCHANGED itSeen
    /\ UNCHANGED <<procVars, workerVars, regVars, rop, rid, rurl, rproc, rret,
                   rframe, rresult, itSize, rdata, rstatus, nops, timeVars>>

\* get_stream_snapshot: if stream_id not in streams: return 404
SnapshotCheck(r) ==
    /\ rpc[r] = "snapshot_check"
    /\ IF streams[rid[r]] = 0 THEN Respond(r, "NotFound")
       ELSE /\ rpc' = [rpc EXCEPT ![r] = "snapshot_lookup"]
            /\ UNCHANGED resp
    /\ UNCHANGED <<procVars, workerVars, regVars, rop, rid, rurl, rproc, rret,
                   rframe, rresult, itSize, itSeen,
                   rdata, rstatus, nops, timeVars>>

\* streams[stream_id].get_latest_result(): the subscript
SnapshotLookup(r) ==
    /\ rpc[r] = "snapshot_lookup"
    /\ IF streams[rid[r]] = 0
         THEN /\ Raise(r, "KeyError")
              /\ UNCHANGED rproc
         ELSE /\ rproc' = [rproc EXCEPT ![r] = streams[rid[r]]]
              /\ rpc' = [rpc EXCEPT ![r] = "get_latest_result"]
              /\ UNCHANGED resp
    /\ UNCHANGED <<procVars, workerVars, regVars, rop, rid, rurl, rret, rframe,
                   rresult, itSize, itSeen, rdata, rstatus, nops, timeVars>>

\* if result is None or "frame" not in result: fall back to the raw frame
\* (streams[stream_id].get_latest_frame(), a subscript again);
\* else frame = result["frame"]
SnapshotResult(r) ==
    /\ rpc[r] = "snapshot_result"
    /\ IF rresult[r] # NoResult /\ rresult[r].frame # NoFrame
         THEN /\ rframe' = [rframe EXCEPT ![r] = rresult[r].frame]
              /\ rpc' = [rpc EXCEPT ![r] = "snapshot_send"]
              /\ UNCHANGED <<rproc, resp>>
       ELSE IF streams[rid[r]] = 0
         THEN /\ Raise(r, "KeyError")
              /\ UNCHANGED <<rproc, rframe>>
       ELSE /\ rproc' = [rproc EXCEPT ![r] = streams[rid[r]]]
            /\ rpc' = [rpc EXCEPT ![r] = "get_latest_frame"]
            /\ UNCHANGED <<rframe, resp>>
    /\ UNCHANGED <<procVars, workerVars, regVars, rop, rid, rurl, rret,
                   rresult, itSize, itSeen, rdata, rstatus, nops, timeVars>>

\* cv2.imencode('.jpg', frame); return send_file(...)
SnapshotSend(r) ==
    /\ rpc[r] = "snapshot_send"
    /\ Respond(r, "image")
    /\ UNCHANGED <<procVars, workerVars, regVars, rop, rid, rurl, rproc, rret,
                   rframe, rresult, itSize, itSeen,
                   rdata, rstatus, nops, timeVars>>

\* get_stream_status: if stream_id not in streams: return 404
StatusCheck(r) ==
    /\ rpc[r] = "status_check"
    /\ IF streams[rid[r]] = 0 THEN Respond(r, "NotFound")
       ELSE /\ rpc' = [rpc EXCEPT ![r] = "status_lookup"]
            /\ UNCHANGED resp
    /\ UNCHANGED <<procVars, workerVars, regVars, rop, rid, rurl, rproc, rret,
                   rframe, rresult, itSize, itSeen, rdata, rstatus, nops,
                   timeVars>>

\* streams[stream_id].get_status(): the subscript
StatusLookup(r) ==
    /\ rpc[r] = "status_lookup"
    /\ IF streams[rid[r]] = 0
         THEN /\ Raise(r, "KeyError")
              /\ UNCHANGED rproc
         ELSE /\ rproc' = [rproc EXCEPT ![r] = streams[rid[r]]]
              /\ rpc' = [rpc EXCEPT ![r] = "get_status"]
              /\ UNCHANGED resp
    /\ UNCHANGED <<procVars, workerVars, regVars, rop, rid, rurl, rret, rframe,
                   rresult, itSize, itSeen, rdata, rstatus, nops, timeVars>>

\* JSON true / false
Json(b) == IF b THEN "True" ELSE "False"

\* get_status: "detection_enabled": self.config["detection"]["enabled"],
\* "motion_enabled": self.config["motion"]["enabled"]
GetStatus(r) ==
    /\ rpc[r] = "get_status"
    /\ rstatus' = [rstatus EXCEPT ![r] =
           [detection |-> Json(detection_enabled),
            motion |-> Json(motion_enabled)]]
    /\ Respond(r, "status")
    /\ UNCHANGED <<procVars, workerVars, regVars, rop, rid, rurl, rproc, rret,
                   rframe, rresult, itSize, itSeen, rdata, nops, timeVars>>

\* get_stream_detections: if stream_id not in streams: return 404
DetectionsCheck(r) ==
    /\ rpc[r] = "detections_check"
    /\ IF streams[rid[r]] = 0 THEN Respond(r, "NotFound")
       ELSE /\ rpc' = [rpc EXCEPT ![r] = "detections_lookup"]
            /\ UNCHANGED resp
    /\ UNCHANGED <<procVars, workerVars, regVars, rop, rid, rurl, rproc, rret,
                   rframe, rresult, itSize, itSeen, rdata, rstatus, nops,
                   timeVars>>

\* result = streams[stream_id].get_latest_result(): the subscript
DetectionsLookup(r) ==
    /\ rpc[r] = "detections_lookup"
    /\ IF streams[rid[r]] = 0
         THEN /\ Raise(r, "KeyError")
              /\ UNCHANGED rproc
         ELSE /\ rproc' = [rproc EXCEPT ![r] = streams[rid[r]]]
              /\ rpc' = [rpc EXCEPT ![r] = "get_latest_result"]
              /\ UNCHANGED resp
    /\ UNCHANGED <<procVars, workerVars, regVars, rop, rid, rurl, rret, rframe,
                   rresult, itSize, itSeen, rdata, rstatus, nops, timeVars>>

\* The dict `result` of the handler is the one the result queue holds.
\* Mutant of DetectionsResult: del result["frame"] on that dict, no copy.
DetectionsResultInPlace(r) ==
    LET q == result_queue[rproc[r]] IN
    /\ rpc[r] = "detections_result"
    /\ IF rresult[r] = NoResult
         THEN /\ Respond(r, "no_detections")
              /\ UNCHANGED <<rresult, result_queue>>
         ELSE /\ rresult' = [rresult EXCEPT ![r].frame = NoFrame]
              /\ result_queue' = [result_queue EXCEPT ![rproc[r]] =
                     [i \in 1..Len(q) |->
                         IF q[i] = rresult[r]
                           THEN [q[i] EXCEPT !.frame = NoFrame] ELSE q[i]]]
              /\ Respond(r, "detections")
    /\ UNCHANGED <<url, stream_id, running, cap, thread, detection_thread,
                   latest_frame, frame_queue, frame_count, total_frames,
                   start_time, pos, seq, published, drops, readFails>>
    /\ UNCHANGED <<workerVars, regVars, rop, rid, rurl, rproc, rret, rframe,
                   itSize, itSeen, rdata, rstatus, nops, timeVars>>

\* if result is None: return {"detections": []};
\* result_copy = result.copy(); del result_copy["frame"]; return it
DetectionsResult(r) ==
    /\ rpc[r] = "detections_result"
    /\ IF rresult[r] = NoResult
         THEN /\ Respond(r, "no_detections")
              /\ UNCHANGED <<rresult, result_queue>>
         ELSE /\ rresult' = [rresult EXCEPT ![r].frame = NoFrame]
              /\ Respond(r, "detections")
              /\ UNCHANGED result_queue
    /\ UNCHANGED <<url, stream_id, running, cap, thread, detection_thread,
                   latest_frame, frame_queue, frame_count, total_frames,
                   start_time, pos, seq, published, drops, readFails>>
    /\ UNCHANGED <<workerVars, regVars, rop, rid, rurl, rproc, rret, rframe,
                   itSize, itSeen, rdata, rstatus, nops, timeVars>>

\* An update_config request: its JSON body is empty (NoData), or says for
\* each of "detection" and "motion" whether the settings it carries set
\* "enabled" to true or to false, or leave it ("keep": the key is absent or
\* its settings do not name "enabled").
Settings == {"True", "False", "keep"}
ConfigBodies == [detection : Settings, motion : Settings] \cup {NoData}
BeginConfig(r, bodies, budget) ==
    /\ rpc[r] = "idle"
    /\ nops < budget
    /\ \E d \in bodies :
          /\ rop' = [rop EXCEPT ![r] = "update_config"]
          /\ rdata' = [rdata EXCEPT ![r] = d]
          /\ rpc' = [rpc EXCEPT ![r] = RouteEntry("update_config")]
    /\ nops' = nops + 1
    /\ UNCHANGED <<procVars, workerVars, regVars, rid, rurl, rproc, rret,
                   rframe, rresult, resp, itSize, itSeen, rstatus, timeVars>>

\* update_config: if not data: return 400
ConfigCheck(r) ==
    /\ rpc[r] = "config_check"
    /\ IF rdata[r] = NoData THEN Respond(r, "NoData")
       ELSE /\ rpc' = [rpc EXCEPT ![r] = "config_detection"]
            /\ UNCHANGED resp
    /\ UNCHANGED <<procVars, workerVars, regVars, rop, rid, rurl, rproc, rret,
                   rframe, rresult, itSize, itSeen, rdata, rstatus, nops,
                   timeVars>>

\* The flag after the settings `set` were applied to it.
Updated(flag, set) == IF set = "keep" THEN flag ELSE set = "True"
\* Analysis workers whose frame was taken under the flags as they stay.
StillSince(changed) == [w \in Workers |-> wsince[w] /\ ~changed]

\* if "detection" in data: CONFIG["detection"].update(data["detection"])
ConfigDetection(r) ==
    LET new == Updated(detection_enabled, rdata[r].detection) IN
    /\ rpc[r] = "config_detection"
    /\ detection_enabled' = new
    /\ wsince' = StillSince(new # detection_enabled)
    /\ rpc' = [rpc EXCEPT ![r] = "config_motion"]
    /\ UNCHANGED <<procVars, wkind, wproc, wpc, wframe, wresult, streams,
                   configStreams, motion_enabled, rop, rid, rurl, rproc, rret,
                   rframe, rresult, resp, itSize, itSeen, rdata, rstatus,
                   nops, timeVars>>

\* if "motion" in data: CONFIG["motion"].update(data["motion"]); then the
\* loop over streams.items() that sets processor.config = CONFIG, the dict
\* every processor already holds.
ConfigMotion(r) ==
    LET new == Updated(motion_enabled, rdata[r].motion) IN
    /\ rpc[r] = "config_motion"
    /\ motion_enabled' = new
    /\ wsince' = StillSince(new # motion_enabled)
    /\ rpc' = [rpc EXCEPT ![r] = "list_begin"]
    /\ UNCHANGED <<procVars, wkind, wproc, wpc, wframe, wresult, streams,
                   configStreams, detection_enabled, rop, rid, rurl, rproc,
                   rret, rframe, rresult, resp, itSize, itSeen, rdata,
                   rstatus, nops, timeVars>>

\* ------------------------------------------------------------------- Init
\* No StreamProcessor constructed, no thread spawned, streams = {} and
\* CONFIG["streams"] = {} (app.py), every request thread idle.
Init ==
    /\ url = [p \in Procs |-> NoUrl]
    /\ stream_id = [p \in Procs |-> None]
    /\ running = [p \in Procs |-> FALSE]
    /\ cap = [p \in Procs |-> None]
    /\ thread = [p \in Procs |-> 0]
    /\ detection_thread = [p \in Procs |-> Unset]
    /\ latest_frame = [p \in Procs |-> 0]
    /\ frame_queue = [p \in Procs |-> <<>>]
    /\ result_queue = [p \in Procs |-> <<>>]
    /\ frame_count = [p \in Procs |-> 0]
    /\ total_frames = [p \in Procs |-> 0]
    /\ start_time = [p \in Procs |-> FALSE]
    /\ pos = [p \in Procs |-> 0]
    /\ seq = [p \in Procs |-> 0]
    /\ published = [p \in Procs |-> <<>>]
    /\ drops = [p \in Procs |-> 0]
    /\ readFails = [p \in Procs |-> 0]
    /\ wkind = [w \in Workers |-> None]
    /\ wproc = [w \in Workers |-> 0]
    /\ wpc = [w \in Workers |-> "done"]
    /\ wframe = [w \in Workers |-> 0]
    /\ wresult = [w \in Workers |-> NoResult]
    /\ wsince = [w \in Workers |-> TRUE]
    /\ streams = [i \in StreamIds |-> 0]
    /\ configStreams = [i \in StreamIds |-> NoUrl]
    /\ motion_enabled = TRUE
    /\ detection_enabled = TRUE
    /\ rop = [r \in Reqs |-> None]
    /\ rpc = [r \in Reqs |-> "idle"]
    /\ rid = [r \in Reqs |-> None]
    /\ rurl = [r \in Reqs |-> NoUrl]
    /\ rproc = [r \in Reqs |-> 0]
    /\ rret = [r \in Reqs |-> None]
    /\ rframe = [r \in Reqs |-> NoFrame]
    /\ rresult = [r \in Reqs |-> NoResult]
    /\ resp = [r \in Reqs |-> None]
    /\ itSize = [r \in Reqs |-> 0]
    /\ itSeen = [r \in Reqs |-> {}]
    /\ rdata = [r \in Reqs |-> NoData]
    /\ rstatus = [r \in Reqs |-> NoData]
    /\ nops = 0
    /\ now = 0
    /\ startAt = [p \in Procs |-> 0]
    /\ passAt = [p \in Procs |-> 0]

\* One StreamProcessor(stream_id, url, config) constructed directly, as
\* __init__ leaves it, and not registered.
InitPipe ==
    \E u \in Urls :
        /\ url = [p \in Procs |-> IF p = 1 THEN u ELSE NoUrl]
        /\ stream_id = [p \in Procs |-> IF p = 1 THEN "a" ELSE None]
        /\ running = [p \in Procs |-> FALSE]
        /\ cap = [p \in Procs |-> None]
        /\ thread = [p \in Procs |-> 0]
        /\ detection_thread = [p \in Procs |-> Unset]
        /\ latest_frame = [p \in Procs |-> 0]
        /\ frame_queue = [p \in Procs |-> <<>>]
        /\ result_queue = [p \in Procs |-> <<>>]
        /\ frame_count = [p \in Procs |-> 0]
        /\ total_frames = [p \in Procs |-> 0]
        /\ start_time = [p \in Procs |-> FALSE]
        /\ pos = [p \in Procs |-> 0]
        /\ seq = [p \in Procs |-> 0]
        /\ published = [p \in Procs |-> <<>>]
        /\ drops = [p \in Procs |-> 0]
        /\ readFails = [p \in Procs |-> 0]
        /\ wkind = [w \in Workers |-> None]
        /\ wproc = [w \in Workers |-> 0]
        /\ wpc = [w \in Workers |-> "done"]
        /\ wframe = [w \in Workers |-> 0]
        /\ wresult = [w \in Workers |-> NoResult]
        /\ wsince = [w \in Workers |-> TRUE]
        /\ streams = [i \in StreamIds |-> 0]
        /\ configStreams = [i \in StreamIds |-> NoUrl]
        /\ motion_enabled = TRUE
        /\ detection_enabled = TRUE
        /\ rop = [r \in Reqs |-> None]
        /\ rpc = [r \in Reqs |-> "idle"]
        /\ rid = [r \in Reqs |-> None]
        /\ rurl = [r \in Reqs |-> NoUrl]
        /\ rproc = [r \in Reqs |-> 0]
        /\ rret = [r \in Reqs |-> None]
        /\ rframe = [r \in Reqs |-> NoFrame]
        /\ rresult = [r \in Reqs |-> NoResult]
        /\ resp = [r \in Reqs |-> None]
        /\ itSize = [r \in Reqs |-> 0]
        /\ itSeen = [r \in Reqs |-> {}]
        /\ rdata = [r \in Reqs |-> NoData]
        /\ rstatus = [r \in Reqs |-> NoData]
        /\ nops = 0
        /\ now = 0
        /\ startAt = [p \in Procs |-> 0]
        /\ passAt = [p \in Procs |-> 0]

\* video_feed: if stream_id not in streams: return 404; otherwise the
\* response streams generate(), which runs on the request thread.
FeedCheck(r) ==
    /\ rpc[r] = "feed_check"
    /\ IF streams[rid[r]] = 0 THEN Respond(r, "NotFound")
       ELSE /\ rpc' = [rpc EXCEPT ![r] = "feed_cond"]
            /\ UNCHANGED resp
    /\ UNCHANGED <<procVars, workerVars, regVars, rop, rid, rurl, rproc, rret,
                   rframe, rresult, itSize, itSeen,
                   rdata, rstatus, nops, timeVars>>

\* while streams.get(stream_id) ...: None ends the generator and with it
\* the response.
FeedCond(r) ==
    /\ rpc[r] = "feed_cond"
    /\ IF streams[rid[r]] = 0 THEN Respond(r, "ended")
       ELSE /\ rpc' = [rpc EXCEPT ![r] = "feed_running"]
            /\ UNCHANGED resp
    /\ UNCHANGED <<procVars, workerVars, regVars, rop, rid, rurl, rproc, rret,
                   rframe, rresult, itSize, itSeen,
                   rdata, rstatus, nops, timeVars>>

\* ... and streams[stream_id].running: a subscript (KeyError when the key is
\* gone), then the flag; then result = streams[stream_id].get_latest_result(),
\* a subscript again.
FeedRunning(r) ==
    /\ rpc[r] = "feed_running"
    /\ IF streams[rid[r]] = 0 THEN Raise(r, "KeyError")
       ELSE IF ~running[streams[rid[r]]] THEN Respond(r, "ended")
       ELSE /\ rpc' = [rpc EXCEPT ![r] = "feed_lookup"]
            /\ UNCHANGED resp
    /\ UNCHANGED <<procVars, workerVars, regVars, rop, rid, rurl, rproc, rret,
                   rframe, rresult, itSize, itSeen,
                   rdata, rstatus, nops, timeVars>>

FeedLookup(r) ==
    /\ rpc[r] = "feed_lookup"
    /\ IF streams[rid[r]] = 0
         THEN /\ Raise(r, "KeyError")
              /\ UNCHANGED rproc
         ELSE /\ rproc' = [rproc EXCEPT ![r] = streams[rid[r]]]
              /\ rpc' = [rpc EXCEPT ![r] = "get_latest_result"]
              /\ UNCHANGED resp
    /\ UNCHANGED <<procVars, workerVars, regVars, rop, rid, rurl, rret, rframe,
                   rresult, itSize, itSeen, rdata, rstatus, nops, timeVars>>

\* if result is None or "frame" not in result:
\*     frame = streams[stream_id].get_latest_frame()   (a subscript)
\* else: frame = result["frame"]
FeedResult(r) ==
    /\ rpc[r] = "feed_result"
    /\ IF rresult[r] # NoResult
         THEN /\ rframe' = [rframe EXCEPT ![r] = rresult[r].frame]
              /\ rpc' = [rpc EXCEPT ![r] = "feed_yield"]
              /\ UNCHANGED <<rproc, resp>>
       ELSE IF streams[rid[r]] = 0
         THEN /\ Raise(r, "KeyError")
              /\ UNCHANGED <<rproc, rframe>>
       ELSE /\ rproc' = [rproc EXCEPT ![r] = streams[rid[r]]]
            /\ rpc' = [rpc EXCEPT ![r] = "get_latest_frame"]
            /\ UNCHANGED <<rframe, resp>>
    /\ UNCHANGED <<procVars, workerVars, regVars, rop, rid, rurl, rret,
                   rresult, itSize, itSeen, rdata, rstatus, nops, timeVars>>

\* cv2.imencode('.jpg', frame) (get_latest_frame never returns None); yield
\* the multipart chunk; the loop goes on.
FeedYield(r) ==
    /\ rpc[r] = "feed_yield"
    /\ rpc' = [rpc EXCEPT ![r] = "feed_cond"]
    /\ resp' = [resp EXCEPT ![r] = "frame"]
    /\ UNCHANGED <<procVars, workerVars, regVars, rop, rid, rurl, rproc, rret,
                   rframe, rresult, itSize, itSeen,
                   rdata, rstatus, nops, timeVars>>

\* --------------------------------------------- the pipeline specifications
\* One pipeline, started once, and its two workers.
Workers1 ==
    \E w \in Workers :
        \/ CaptureLoop(w) \/ CaptureReopen(w)
        \/ AnalysisLoop(w) \/ AnalysisDetect(w)

StartOnce ==
    \/ PipeCall(1, StartOnly)
    \/ StartFlag(1) \/ StartOpen(1) \/ StartSpawn(1) \/ StartSetTime(1)
    \/ Return(1)

\* The capture worker runs ahead of the analysis worker and drops frames.
NextPipe ==
    \/ StartOnce
    \/ Workers1
    \/ \E w \in Workers : CaptureRead(w, PipeFrames, PipeDrops)

SpecPipe == InitPipe /\ [][NextPipe]_vars

\* A long run, in which the result queue fills up.
NextLong ==
    \/ StartOnce
    \/ Workers1
    \/ \E w \in Workers : CaptureRead(w, LongFrames, LongDrops)
    \/ \E w \in Workers : AnalysisPut(w)

SpecLong == InitPipe /\ [][NextLong]_vars

\* A camera pipeline that was started and has published ResultQueueMax
\* results, every captured frame analysed, both workers at the head of
\* their loops: the state SpecLong reaches when its result queue is full
\* for the first time.
InitFull ==
    /\ url = [p \in Procs |-> IF p = 1 THEN "live" ELSE NoUrl]
    /\ stream_id = [p \in Procs |-> IF p = 1 THEN "a" ELSE None]
    /\ running = [p \in Procs |-> p = 1]
    /\ cap = [p \in Procs |-> IF p = 1 THEN "open" ELSE None]
    /\ thread = [p \in Procs |-> IF p = 1 THEN 1 ELSE 0]
    /\ detection_thread = [p \in Procs |-> IF p = 1 THEN 2 ELSE Unset]
    /\ latest_frame = [p \in Procs |-> IF p = 1 THEN ResultQueueMax ELSE 0]
    /\ frame_queue = [p \in Procs |-> <<>>]
    /\ result_queue = [p \in Procs |->
           IF p = 1 THEN [i \in 1..ResultQueueMax |-> Result(i)] ELSE <<>>]
    /\ frame_count = [p \in Procs |-> IF p = 1 THEN ResultQueueMax ELSE 0]
    /\ total_frames = [p \in Procs |-> 0]
    /\ start_time = [p \in Procs |-> FALSE]
    /\ pos = [p \in Procs |-> IF p = 1 THEN ResultQueueMax ELSE 0]
    /\ seq = [p \in Procs |-> IF p = 1 THEN ResultQueueMax ELSE 0]
    /\ published = [p \in Procs |->
           IF p = 1 THEN [i \in 1..ResultQueueMax |-> i] ELSE <<>>]
    /\ drops = [p \in Procs |-> 0]
    /\ readFails = [p \in Procs |-> 0]
    /\ wkind = [w \in Workers |->
           IF w = 1 THEN "capture" ELSE IF w = 2 THEN "analysis" ELSE None]
    /\ wproc = [w \in Workers |-> IF w <= 2 THEN 1 ELSE 0]
    /\ wpc = [w \in Workers |-> IF w <= 2 THEN "loop" ELSE "done"]
    /\ wframe = [w \in Workers |-> 0]
    /\ wresult = [w \in Workers |-> NoResult]
    /\ wsince = [w \in Workers |-> TRUE]
    /\ streams = [i \in StreamIds |-> 0]
    /\ configStreams = [i \in StreamIds |-> NoUrl]
    /\ motion_enabled = TRUE
    /\ detection_enabled = TRUE
    /\ rop = [r \in Reqs |-> None]
    /\ rpc = [r \in Reqs |-> "idle"]
    /\ rid = [r \in Reqs |-> None]
    /\ rurl = [r \in Reqs |-> NoUrl]
    /\ rproc = [r \in Reqs |-> 0]
    /\ rret = [r \in Reqs |-> None]
    /\ rframe = [r \in Reqs |-> NoFrame]
    /\ rresult = [r \in Reqs |-> NoResult]
    /\ resp = [r \in Reqs |-> None]
    /\ itSize = [r \in Reqs |-> 0]
    /\ itSeen = [r \in Reqs |-> {}]
    /\ rdata = [r \in Reqs |-> NoData]
    /\ rstatus = [r \in Reqs |-> NoData]
    /\ nops = 0
    /\ now = 0
    /\ startAt = [p \in Procs |-> 0]
    /\ passAt = [p \in Procs |-> 0]

\* From there the workers go on, the analysis worker removing the oldest
\* result before each put, while a thread calls get_latest_result() again
\* and again.
ResultOnly == {"get_latest_result"}
NextPeek ==
    \/ PipeCall(2, ResultOnly)
    \/ GetLatestResultEmpty(2) \/ GetLatestResultPeek(2)
    \/ Return(2)
    \/ Workers1
    \/ \E w \in Workers : CaptureRead(w, ResultQueueMax + PeekFrames, 0)
    \/ \E w \in Workers : AnalysisPut(w)

SpecPeek == InitFull /\ [][NextPeek]_vars

\* A short run, and a thread that reads the latest frame and the latest
\* result while the workers run.
NextRead ==
    \/ PipeCall(1, StartAndRead)
    \/ StartFlag(1) \/ StartOpen(1) \/ StartSpawn(1) \/ StartSetTime(1)
    \/ GetLatestFrame(1) \/ GetLatestResultEmpty(1) \/ GetLatestResultPeek(1)
    \/ Return(1)
    \/ Workers1
    \/ \E w \in Workers : CaptureRead(w, ReadFrames, 0)

SpecRead == InitPipe /\ [][NextRead]_vars

\* One pipeline and a thread that calls start() and stop() on it, stop() at
\* any time and any number of times, while the workers run.
LifeOps == {"start", "stop"}
NextLife ==
    \/ PipeCall(1, LifeOps)
    \/ StartFlag(1) \/ StartOpen(1) \/ StartSpawn(1) \/ StartSetTime(1)
    \/ StopClear(1) \/ StopJoinThread(1) \/ StopJoinDetection(1)
    \/ StopRelease(1)
    \/ Return(1)
    \/ Workers1
    \/ \E w \in Workers : CaptureRead(w, LifeFrames, 0)

SpecLife == InitPipe /\ [][NextLife]_vars

\* The same with the scheduling of threads: a thread that can take its next
\* step is not held back forever, be it a worker or the caller inside stop().
FairLife ==
    /\ \A w \in Workers :
          /\ WF_vars(CaptureLoop(w))
          /\ WF_vars(CaptureRead(w, LifeFrames, 0))
          /\ WF_vars(CaptureReopen(w))
          /\ WF_vars(AnalysisLoop(w))
          /\ WF_vars(AnalysisDetect(w))
    /\ WF_vars(StopClear(1) \/ StopJoinThread(1) \/ StopJoinDetection(1)
                  \/ StopRelease(1))

SpecLifeFair == SpecLife /\ FairLife

\* One running pipeline whose motion detector can fail on a frame.
NextDetect ==
    \/ StartOnce
    \/ Workers1
    \/ \E w \in Workers : CaptureRead(w, DetectFrames, 0)
    \/ \E w \in Workers : AnalysisDetectRaises(w)

SpecDetect == InitPipe /\ [][NextDetect]_vars

\* One pipeline and a thread that calls start() and stop() on it in any
\* order: the pipeline is started, stopped and started again.
NextRestart ==
    \/ PipeCallAgain(1, LifeOps)
    \/ StartFlag(1) \/ StartOpen(1) \/ StartSpawn(1) \/ StartSetTime(1)
    \/ StopClear(1) \/ StopJoinThread(1) \/ StopJoinDetection(1)
    \/ StopRelease(1)
    \/ Return(1)
    \/ Workers1
    \/ \E w \in Workers : CaptureRead(w, RestartFrames, 0)

SpecRestart == InitPipe /\ [][NextRestart]_vars

\* One pipeline with start() and stop() calls, whose reads, reconnects and
\* detector calls can fail.
NextWork ==
    \/ NextLife
    \/ \E w \in Workers : AnalysisDetectRaises(w)

SpecWork == InitPipe /\ [][NextWork]_vars

\* One pipeline started once whose analysis worker may stall at any point
\* for any time, while start() and the capture worker are scheduled and the
\* source keeps delivering: a reconnect to it succeeds in the end.
NextStall ==
    \/ StartOnce
    \/ Workers1
    \/ \E w \in Workers : CaptureRead(w, StallFrames, StallDrops)

FairStall ==
    /\ WF_vars(StartOnce)
    /\ \A w \in Workers :
          /\ WF_vars(CaptureLoop(w))
          /\ WF_vars(CaptureRead(w, StallFrames, StallDrops))
          /\ WF_vars(CaptureReopen(w))
          /\ SF_vars(CaptureReopen(w) /\ cap'[wproc[w]] = "open")

SpecStall == InitPipe /\ [][NextStall]_vars /\ FairStall

\* One pipeline started once, with the clock: the capture worker paces its
\* reads of a video file against time.time().
NextPace ==
    \/ StartOnce
    \/ Tick
    \/ \E w \in Workers :
          \/ CapturePace(w) \/ CaptureWake(w)
          \/ CaptureRead(w, PaceFrames, 0) \/ CaptureReopen(w)
          \/ AnalysisLoop(w) \/ AnalysisDetect(w)

SpecPace == InitPipe /\ [][NextPace]_vars

\* --------------------------------------------- the registry specifications
Handlers(r) ==
    \/ AddStreamCheck(r) \/ LoadVideoCheck(r)
    \/ CreateRegister(r) \/ CreateConfig(r)
    \/ StartFlag(r) \/ StartOpen(r) \/ StartSpawn(r) \/ StartSetTime(r)
    \/ DeleteCheck(r) \/ DeleteLookup(r) \/ DeleteRemove(r) \/ DeleteConfig(r)
    \/ StopClear(r) \/ StopJoinThread(r) \/ StopJoinDetection(r)
    \/ StopRelease(r)
    \/ ListBegin(r) \/ ListNext(r)
    \/ SnapshotCheck(r) \/ SnapshotLookup(r) \/ SnapshotResult(r)
    \/ SnapshotSend(r)
    \/ GetLatestFrame(r) \/ GetLatestResultEmpty(r) \/ GetLatestResultPeek(r)
    \/ Return(r)

\* One request at a time, the pipelines the requests create and the workers
\* of these; the constructor call of the create handlers yields a
\* StreamProcessor.
Next ==
    \/ Begin(1, RouteOps, Ids, RequestUrls, MaxOps)
    \/ Handlers(1) \/ CreateConstruct(1)
    \/ Workers1
    \/ \E w \in Workers : CaptureRead(w, RegFrames, 0)

Spec == Init /\ [][Next]_vars

\* Two request threads of the server (waitress, threads=32) on one id.
RaceIds == {"a"}
RaceUrls == {"file", NoUrl}
NextRace ==
    \/ \E r \in Reqs :
          \/ Begin(r, RouteOps, RaceIds, RaceUrls, RaceOps)
          \/ Handlers(r) \/ CreateConstruct(r)
    \/ \E w \in Workers :
          \/ CaptureLoop(w) \/ CaptureRead(w, RegFrames, 0)
          \/ AnalysisLoop(w) \/ AnalysisDetect(w)

SpecRace == Init /\ [][NextRace]_vars

\* Two request threads: a stream is created, its feed is streamed, and it is
\* deleted.
FeedRouteOps == {"add_stream", "delete_stream", "video_feed"}
NextFeed ==
    \/ \E r \in Reqs :
          \/ Begin(r, FeedRouteOps, RaceIds, RaceUrls, FeedOps)
          \/ AddStreamCheck(r) \/ CreateConstruct(r)
          \/ StartFlag(r) \/ StartOpen(r) \/ StartSpawn(r) \/ StartSetTime(r)
          \/ CreateRegister(r) \/ CreateConfig(r)
          \/ DeleteCheck(r) \/ DeleteLookup(r) \/ DeleteRemove(r)
          \/ DeleteConfig(r)
          \/ StopClear(r) \/ StopJoinThread(r) \/ StopJoinDetection(r)
          \/ StopRelease(r)
          \/ FeedCheck(r) \/ FeedCond(r) \/ FeedRunning(r) \/ FeedLookup(r)
          \/ FeedResult(r) \/ FeedYield(r)
          \/ GetLatestFrame(r) \/ GetLatestResultEmpty(r)
          \/ GetLatestResultPeek(r)
          \/ Return(r)
    \/ \E w \in Workers :
          \/ CaptureLoop(w) \/ CaptureRead(w, RegFrames, 0)
          \/ AnalysisLoop(w) \/ AnalysisDetect(w)

SpecFeed == Init /\ [][NextFeed]_vars

\* One request at a time, each an add_stream without an id, and the clock.
GenUrls == {"file"}
NextGen ==
    \/ BeginNoId(1, GenUrls, GenOps)
    \/ AddStreamCheck(1) \/ CreateConstruct(1)
    \/ StartFlag(1) \/ StartOpen(1) \/ StartSpawn(1) \/ StartSetTime(1)
    \/ CreateRegister(1) \/ CreateConfig(1)
    \/ Return(1)
    \/ Tick
    \/ \E w \in Workers :
          \/ CaptureLoop(w) \/ CaptureRead(w, RegFrames, 0)
          \/ AnalysisLoop(w) \/ AnalysisDetect(w)

SpecGen == Init /\ [][NextGen]_vars

\* One pipeline analyses its frames detector by detector while a thread
\* updates CONFIG, the dict the pipeline was constructed with.
NextDet ==
    \/ StartOnce
    \/ BeginConfig(2, ConfigBodies, DetOps)
    \/ ConfigCheck(2) \/ ConfigDetection(2) \/ ConfigMotion(2)
    \/ ListBegin(2) \/ ListNext(2)
    \/ Return(2)
    \/ \E w \in Workers :
          \/ CaptureLoop(w) \/ CaptureRead(w, CfgFrames, 0)
          \/ AnalysisLoop(w) \/ AnalysisMotion(w) \/ AnalysisObject(w)

SpecDet == InitPipe /\ [][NextDet]_vars

\* One request at a time: a stream is created, the configuration is
\* updated, status, detections and snapshot are read, while the workers run
\* and the analysis worker reads the flags detector by detector.
CfgRouteOps == {"add_stream", "status", "detections", "snapshot"}
NextCfg ==
    \/ Begin(1, CfgRouteOps, RaceIds, RaceUrls, CfgOps)
    \/ BeginConfig(1, ConfigBodies, CfgOps)
    \/ AddStreamCheck(1) \/ CreateConstruct(1)
    \/ StartFlag(1) \/ StartOpen(1) \/ StartSpawn(1) \/ StartSetTime(1)
    \/ CreateRegister(1) \/ CreateConfig(1)
    \/ ConfigCheck(1) \/ ConfigDetection(1) \/ ConfigMotion(1)
    \/ ListBegin(1) \/ ListNext(1)
    \/ StatusCheck(1) \/ StatusLookup(1) \/ GetStatus(1)
    \/ DetectionsCheck(1) \/ DetectionsLookup(1) \/ DetectionsResult(1)
    \/ SnapshotCheck(1) \/ SnapshotLookup(1) \/ SnapshotResult(1)
    \/ SnapshotSend(1)
    \/ GetLatestFrame(1) \/ GetLatestResultEmpty(1) \/ GetLatestResultPeek(1)
    \/ Return(1)
    \/ \E w \in Workers :
          \/ CaptureLoop(w) \/ CaptureRead(w, CfgFrames, 0)
          \/ AnalysisLoop(w) \/ AnalysisMotion(w) \/ AnalysisObject(w)

SpecCfg == Init /\ [][NextCfg]_vars

\* The same handlers with the constructor of src/vision.py, which takes
\* three arguments: no StreamProcessor is ever constructed.
NextSrc ==
    \E r \in Reqs :
        \/ Begin(r, RouteOps, Ids, RequestUrls, MaxOps)
        \/ AddStreamCheck(r) \/ LoadVideoCheck(r) \/ CreateConstructRaises(r)
        \/ DeleteCheck(r)
        \/ ListBegin(r) \/ ListNext(r)
        \/ SnapshotCheck(r)
        \/ Return(r)

SpecSrc == Init /\ [][NextSrc]_vars

\* ------------------------------------------------------------ the claims
Started == {p \in Procs : thread[p] # 0}
IsIncreasing(q) == \A i \in 1..(Len(q) - 1) : q[i] < q[i + 1]
LastN(q, n) == IF Len(q) <= n THEN q ELSE SubSeq(q, Len(q) - n + 1, Len(q))
Frames(q) == [i \in 1..Len(q) |-> q[i].frame]
MidEvict(p) == \E w \in Workers : wproc[w] = p /\ wpc[w] = "evicted"

\* C1: the frame queue never holds more than its capacity of 10 frames, its
\* frames are in capture order, and a frame read while the queue is full is
\* the one dropped: the queued frames stay as they were.
C1_FrameQueueDropsNewest ==
    /\ \A p \in Procs : Len(frame_queue[p]) <= FrameQueueMax
    /\ [][\A p \in Procs :
            /\ Len(frame_queue'[p]) <= FrameQueueMax
            /\ IsIncreasing(frame_queue'[p])
            /\ (seq'[p] = seq[p] + 1 /\ Len(frame_queue[p]) = FrameQueueMax)
                   => frame_queue'[p] = frame_queue[p]
            /\ (seq'[p] = seq[p] + 1 /\ Len(frame_queue[p]) < FrameQueueMax)
                   => frame_queue'[p] = Append(frame_queue[p], seq'[p])]_vars

\* C1 witness: a frame was dropped on a full queue.
C1_Witness ==
    \E p \in Procs : drops[p] > 0 /\ Len(frame_queue[p]) = FrameQueueMax

\* C2: the result queue never holds more than its capacity of 30 results;
\* it holds the most recent results in publication order (all but the
\* oldest of them while the analysis worker is between evicting and
\* inserting), and a result the analysis worker built is always inserted.
C2_ResultQueueEvictsOldest ==
    /\ \A p \in Procs : Len(result_queue[p]) <= ResultQueueMax
    /\ [][/\ \A p \in Procs :
               /\ Len(result_queue'[p]) <= ResultQueueMax
               /\ Frames(result_queue'[p]) = LastN(published'[p],
                      IF MidEvict(p)' THEN ResultQueueMax - 1
                      ELSE ResultQueueMax)
          /\ \A w \in Workers :
               (wframe[w] # NoFrame /\ wframe'[w] = NoFrame)
                   => /\ result_queue'[wproc[w]] # <<>>
                      /\ Newest(result_queue'[wproc[w]]) = Result(wframe[w])
                      /\ published'[wproc[w]] =
                             Append(published[wproc[w]], wframe[w])]_vars

\* C2 witness: a result was published into a full queue.
C2_Witness ==
    \E p \in Procs :
        /\ Len(published[p]) > ResultQueueMax
        /\ Len(result_queue[p]) = ResultQueueMax
        /\ ~MidEvict(p)

ResultReadPcs == {"get_latest_result", "get_latest_result_peek"}

\* C3: get_latest_frame returns the frame of the most recent successful
\* read, or the blank placeholder when none was read; get_latest_result
\* returns the most recently stored result, and None only when none was
\* stored; neither call fails or changes the cache or a queue.
C3_LatestReadsNewest ==
    [][\A r \in Reqs :
         LET p == rproc[r] IN
         /\ (rpc[r] = "get_latest_frame" /\ rpc'[r] # rpc[r])
                => /\ rframe'[r] = (IF seq[p] = 0 THEN Blank ELSE seq[p])
                   /\ resp'[r] = None
                   /\ UNCHANGED <<latest_frame, frame_queue, result_queue>>
         /\ (rpc[r] = "get_latest_result" /\ rpc'[r] = "ret")
                => /\ published[p] = <<>>
                   /\ rresult'[r] = NoResult
                   /\ resp'[r] = None
         /\ (rpc[r] = "get_latest_result_peek" /\ rpc'[r] # rpc[r])
                => /\ published[p] # <<>>
                   /\ rresult'[r] = Result(published[p][Len(published[p])])
                   /\ resp'[r] = None
         /\ (rpc[r] \in ResultReadPcs /\ rpc'[r] # rpc[r])
                => UNCHANGED <<latest_frame, frame_queue, result_queue>>]_vars

\* C3 witness: after two results were stored, and after an earlier read of
\* the first, a read returned the second.
C3_Witness ==
    \E r \in Reqs :
        /\ rop[r] = "get_latest_result"
        /\ rpc[r] = "ret"
        /\ Len(published[rproc[r]]) = 2
        /\ Len(result_queue[rproc[r]]) = 2
        /\ rresult[r] = Result(published[rproc[r]][2])

\* ----------------------------------------------------- claims: the registry
\* The request thread r takes this step.
Steps(r) == rpc'[r] # rpc[r]
CreateCheckPcs == {"add_check", "load_check"}
ClientErrors == {"AlreadyExists", "UrlRequired", "VideoNotFound"}
\* A create request that carries its source: add_stream with a url,
\* load_video with the id of a discovered video.
WellFormed(r) ==
    IF rop[r] = "add_stream" THEN rurl[r] # NoUrl ELSE rid[r] \in VideoIds

Live(i) == {p \in Procs : stream_id[p] = i /\ running[p] /\ thread[p] # 0}

Unopenable(r) ==
    rop[r] \in CreateOps /\ rurl[r] \in Urls /\ ~Openable(rurl[r])

C7_CreateReturnsStarted ==
    [][\A r \in Reqs :
         (/\ rop[r] \in CreateOps /\ Openable(rurl[r])
          /\ rpc[r] # "ret" /\ rpc'[r] = "ret"
          /\ resp'[r] # "AlreadyExists") =>
             /\ resp'[r] = "started"
             /\ streams'[rid[r]] # 0
             /\ running'[streams'[rid[r]]]
             /\ thread'[streams'[rid[r]]] # 0
             /\ detection_thread'[streams'[rid[r]]] # Unset
      ]_vars

DeleteAnswers == {"deleted", "NotFound"}
ReadOps == {"get_streams", "snapshot"}
ReadAnswers == {"statuses", "image", "NotFound"}
StopPcs == {"stop_clear", "stop_join_thread", "stop_join_detection",
            "stop_release"}
\* No stop() call is in progress.
NoStopRunning == \A r \in Reqs : rpc[r] \notin StopPcs
\* Both workers of a pipeline that was started have left their loops.
WorkersExited(p) ==
    /\ thread[p] # 0
    /\ ~is_alive(thread[p])
    /\ ~is_alive(detection_thread[p])

\* C11: after stop() on a running pipeline has returned and its workers
\* have exited, the pipeline holds no open capture handle.
C11_StoppedHoldsNoHandle ==
    \A p \in Procs :
        (~running[p] /\ WorkersExited(p) /\ NoStopRunning) => cap[p] # "open"

\* C12: stop() releases the capture handle only after the capture worker
\* and the analysis worker have exited.
C12_ReleaseAfterWorkersExit ==
    [][\A r \in Reqs :
         (rpc[r] = "stop_release" /\ Steps(r)) =>
             /\ ~is_alive(thread[rproc[r]])
             /\ ~is_alive(detection_thread[rproc[r]])
      ]_vars

\* A pipeline in the Stopped state: flag clear, no worker alive, no open
\* handle (never started, start failed, or stopped before).
Stopped(p) ==
    /\ ~running[p]
    /\ ~is_alive(thread[p])
    /\ detection_thread[p] = Unset \/ ~is_alive(detection_thread[p])
    /\ cap[p] # "open"

\* C13: stop() on a pipeline that is already stopped completes without an
\* error and leaves the flag, the handle, the queues and the counters as
\* they are.
C13_StopOnStoppedIsNoOp ==
    [][\A r \in Reqs :
         (rop[r] = "stop" /\ rpc[r] \in StopPcs /\ Steps(r)
            /\ Stopped(rproc[r])) =>
             /\ resp'[r] = None
             /\ UNCHANGED <<running, cap, frame_queue, result_queue,
                            latest_frame, frame_count, seq>>
      ]_vars

\* Worker threads that belong to pipeline p.
WorkersOf(p) == {w \in Workers : wproc[w] = p}

\* C14: when start() cannot open the source it returns False; when it
\* returns the flag is clear, no capture or analysis worker was spawned and
\* the capture handle it keeps is not open.
C14_FailedStartLeavesStopped ==
    /\ [][\A r \in Reqs :
            (rpc[r] = "start_open" /\ Steps(r) /\ ~Openable(url[rproc[r]])) =>
                /\ rret'[r] = "False"
                /\ rpc'[r] = AfterStart(r)
                /\ UNCHANGED workerVars
         ]_vars
    /\ [](\A r \in Reqs :
            (rop[r] = "start" /\ rpc[r] = "ret" /\ rret[r] = "False") =>
                /\ ~running[rproc[r]]
                /\ thread[rproc[r]] = 0
                /\ detection_thread[rproc[r]] = Unset
                /\ WorkersOf(rproc[r]) = {}
                /\ cap[rproc[r]] # "open")

C14_Witness ==
    \E r \in Reqs :
        /\ rop[r] = "start" /\ rpc[r] = "ret" /\ rret[r] = "False"
        /\ cap[rproc[r]] = "closed"
        /\ ~running[rproc[r]]

\* ------------------------------------------------------ claims: the workers
\* The frame index after n frames were captured from a file of t frames.
IndexAfter(n, t) == IF n = 0 THEN 0 ELSE ((n - 1) % t) + 1

\* C15: for a file source with total_frames = T the frame index is 1..T
\* over the first pass, is reset to 0 by the read that fails after frame T,
\* and is 1 after the next frame (the T+1th captured); the failed read does
\* not end the capture worker, which goes on to the next iteration.
C15_FileIndexWrapsAtEnd ==
    [][\A p \in Procs :
         (is_local_file(url[p]) /\ total_frames'[p] > 0) =>
            /\ seq'[p] = seq[p] + 1 =>
                  frame_count'[p] = IndexAfter(seq'[p], total_frames'[p])
            /\ frame_count'[p] # IndexAfter(seq'[p], total_frames'[p]) =>
                  frame_count'[p] = 0 /\ seq'[p] % total_frames'[p] = 0
            /\ \A w \in WorkersOf(p) :
                  /\ (wkind[w] = "capture" /\ wpc[w] = "read"
                        /\ wpc'[w] # "read" /\ seq'[p] = seq[p]) =>
                         /\ frame_count[p] = total_frames[p]
                         /\ frame_count'[p] = 0
                         /\ wpc'[w] = "loop"
                  /\ wkind'[w] = "capture" => wpc'[w] # "done"
      ]_vars

\* C15 witness: the first frame of the second pass was read.
C15_Witness ==
    \E p \in Procs :
        /\ is_local_file(url[p])
        /\ seq[p] = total_frames[p] + 1
        /\ frame_count[p] = 1

\* C16: when a detector fails while a frame is analysed, a result is still
\* published for that frame and the analysis worker keeps running; the
\* iteration leaves the capture worker's counters alone.
C16_DetectorFailureStillPublishes ==
    [][\A w \in Workers :
         (wkind[w] = "analysis" /\ wpc[w] = "detect" /\ wpc'[w] # "detect") =>
             /\ wpc'[w] # "done"
             /\ \/ published'[wproc[w]] =
                       Append(published[wproc[w]], wframe[w])
                \/ wpc'[w] = "evicted" /\ wframe'[w] = wframe[w]
             /\ UNCHANGED <<frame_count, seq, latest_frame, frame_queue>>
      ]_vars

\* C17: a stop() call comes to an end (each join is bounded), without an
\* error when the pipeline was started; and once stop() has cleared the
\* flag of a started pipeline, with no start() after it, the capture worker
\* and the analysis worker eventually leave their loops.
C17_StopEndsAndWorkersExit ==
    /\ \A r \in Reqs : (rpc[r] \in StopPcs) ~> (rpc[r] = "ret")
    /\ [](\A r \in Reqs :
            (rop[r] = "stop" /\ rpc[r] = "ret" /\ thread[rproc[r]] # 0) =>
                resp[r] = None)
    /\ \A p \in Procs :
          (thread[p] # 0 /\ ~running[p]) ~> WorkersExited(p)

C17_Witness ==
    \E r \in Reqs :
        /\ rop[r] = "stop" /\ rpc[r] = "ret" /\ resp[r] = None
        /\ WorkersExited(rproc[r])
        /\ ~running[rproc[r]]

\* The frame an analysis worker of p holds, after those whose result was
\* stored: the frames taken from the frame queue so far, in the order taken.
Held(p) == {w \in WorkersOf(p) : wkind[w] = "analysis" /\ wframe[w] # NoFrame}
Taken(p) ==
    IF Held(p) = {} THEN published[p]
    ELSE Append(published[p], wframe[CHOOSE w \in Held(p) : TRUE])

\* C18: the frames the analysis worker takes are a subsequence of the frames
\* captured, in capture order: each is a captured frame, none is taken
\* twice and none is taken after a frame captured later.
C18_AnalysedInCaptureOrder ==
    [][\A p \in Procs :
         /\ IsIncreasing(Taken(p)')
         /\ \A i \in 1..Len(Taken(p)') : Taken(p)'[i] \in 1..seq'[p]
         /\ \/ Taken(p)' = Taken(p)
            \/ /\ frame_queue[p] # <<>>
               /\ Taken(p)' = Append(Taken(p), Head(frame_queue[p]))
      ]_vars

\* C18 witness: frames were dropped in between and later frames analysed.
C18_Witness ==
    \E p \in Procs :
        /\ drops[p] > 0
        /\ Len(Taken(p)) > FrameQueueMax
        /\ Taken(p)[Len(Taken(p))] > Len(Taken(p))

\* C19: for a video file, on every pass (the first and each one after a
\* loop-back) the frame with index k of the pass is not read before k frame
\* periods have elapsed since the pass began.
C19_FilePacedOnEveryPass ==
    [][\A p \in Procs :
         (is_local_file(url[p]) /\ seq'[p] = seq[p] + 1) =>
             now - passAt[p] >= frame_count[p]
      ]_vars

\* C20: the feed of a stream ends without an unhandled failure once the
\* pipeline is stopped or deleted, however the steps of its generator
\* interleave with a concurrent delete of the stream.
FeedAnswers == {"ended", "NotFound"}
C22_WorkerExitsOnlyOnClearedFlag ==
    [][\A w \in Workers :
         (wpc[w] # "done" /\ wpc'[w] = "done") =>
             /\ ~running[wproc[w]]
             /\ wpc[w] = "loop"
      ]_vars

\* C22 witness: a reconnect failed (the handle is closed after a failed
\* read) and the capture worker is back at its loop, the flag still set.
C22_Witness ==
    \E w \in Workers :
        /\ wkind[w] = "capture" /\ wpc[w] = "loop"
        /\ running[wproc[w]]
        /\ readFails[wproc[w]] > 0
        /\ cap[wproc[w]] = "closed"

\* C23: the capture worker of a running pipeline does not wait for the
\* analysis worker: whether or not the analysis worker ever takes a frame,
\* each frame the source delivers is read, counted and stored as the latest
\* frame, the frame queue being full or not.
C23_CaptureAdvancesWithoutAnalysis ==
    /\ [][\A p \in Procs :
            /\ seq'[p] = seq[p] \/ seq'[p] = seq[p] + 1
            /\ latest_frame'[p] = seq'[p]
            /\ seq'[p] = seq[p] + 1 => frame_count'[p] # frame_count[p]
         ]_vars
    /\ \A p \in Procs :
          (thread[p] # 0) ~> (seq[p] = StallFrames)

\* C23 witness: the analysis worker has taken no frame, the frame queue is
\* full, frames were dropped and the last frame of the source was read.
C23_Witness ==
    \E p \in Procs :
        /\ published[p] = <<>> /\ Held(p) = {}
        /\ Len(frame_queue[p]) = FrameQueueMax
        /\ drops[p] = StallFrames - FrameQueueMax
        /\ seq[p] = StallFrames /\ latest_frame[p] = StallFrames

\* C24: for a file source the frame index lies between 0 and total_frames
\* in every state, and the progress get_status reports, frame index over
\* total_frames in percent (0 when total_frames is 0), between 0 and 100.
C24_ProgressWithinBounds ==
    \A p \in Procs :
        is_local_file(url[p]) =>
            /\ 0 <= frame_count[p] /\ frame_count[p] <= total_frames[p]
            /\ 0 <= progress(p) /\ progress(p) <= 100

\* C25: every published result lists the motion detections before the
\* object detections, each tagged as the code tags the detections of its
\* detector ("motion" for the motion detector, "person" for the object
\* detector) and carrying that detector's labels for the frame; a detector
\* whose flag is false when the worker reads it adds nothing to the result.
MotionOf(ds) == SelectSeq(ds, LAMBDA d : d.type = "motion")
ObjectOf(ds) == SelectSeq(ds, LAMBDA d : d.type = "person")
BuiltBy(w) == IF wpc'[w] = "evicted" THEN wresult'[w]
              ELSE Newest(result_queue'[wproc[w]])
C25_MotionFirstTaggedAndGated ==
    /\ [](\A p \in Procs : \A i \in DOMAIN result_queue[p] :
            LET f == result_queue[p][i].frame
                ds == result_queue[p][i].detections
            IN /\ ds = MotionOf(ds) \o ObjectOf(ds)
               /\ \/ MotionOf(ds) = <<>>
                  \/ MotionOf(ds) = Tag(motion_detect(f), "motion")
               /\ \/ ObjectOf(ds) = <<>>
                  \/ ObjectOf(ds) = Tag(object_detect(f), "person"))
    /\ [][\A w \in Workers :
            /\ (wpc[w] = "detect" /\ wpc'[w] = "detect_object"
                    /\ ~motion_enabled) =>
                   wresult'[w].detections = <<>>
            /\ (wpc[w] = "detect_object" /\ wpc'[w] # "detect_object") =>
                   /\ MotionOf(BuiltBy(w).detections)
                          = wresult[w].detections
                   /\ ~detection_enabled =>
                          ObjectOf(BuiltBy(w).detections) = <<>>]_vars

\* A result with a motion and an object detection is published; so is the
\* result of a frame with movement, analysed while the motion flag was off,
\* and the result of a frame with objects, analysed while the detection
\* flag was off.
C25_Witness ==
    \E p \in Procs : \E i, j, k \in DOMAIN result_queue[p] :
        /\ MotionOf(result_queue[p][i].detections) # <<>>
        /\ ObjectOf(result_queue[p][i].detections) # <<>>
        /\ motion_detect(result_queue[p][j].frame) # <<>>
        /\ MotionOf(result_queue[p][j].detections) = <<>>
        /\ object_detect(result_queue[p][k].frame) # <<>>
        /\ ObjectOf(result_queue[p][k].detections) = <<>>

\* C26: get_stream_detections answers {detections: []} when
\* get_latest_result returned None, and otherwise the result it returned
\* without its frame and with the same detections; the handler changes no
\* queue, every result a result queue holds has its annotated frame, and a
\* snapshot that got a result sends the frame of that result.
WithoutFrame(res) == [frame |-> NoFrame, detections |-> res.detections]
LoopWorkers(p, kind) ==
    {w \in Workers : wkind[w] = kind /\ wproc[w] = p /\ is_alive(w)}
C28_OneWorkerOfEachKind ==
    \A p \in Procs :
        /\ Cardinality(LoopWorkers(p, "capture")) <= 1
        /\ Cardinality(LoopWorkers(p, "analysis")) <= 1

\* C29: whenever the capture worker of a video file is at the head of an
\* iteration of its running loop, where the pacing reads self.start_time,
\* start() has assigned start_time.
C29_PacingReadsAssignedStartTime ==
    \A w \in Workers :
        (/\ wkind[w] = "capture"
         /\ wpc[w] = "loop"
         /\ running[wproc[w]]
         /\ is_local_file(url[wproc[w]])) => start_time[wproc[w]]

\* C30: a get_latest_result call that runs while the analysis worker
\* publishes never raises; it returns None only if no result was published
\* yet, and otherwise the result of the frame published last at the moment
\* of its read of the queue, also between the removal of the oldest result
\* of a full queue and the put of the new one.
LastPublished(p) == published[p][Len(published[p])]
C30_LatestResultUnderPublish ==
    /\ [](\A r \in Reqs : rop[r] = "get_latest_result" => resp[r] = None)
    /\ [][\A r \in Reqs :
            (rop[r] = "get_latest_result" /\ Steps(r) /\ rpc'[r] = "ret") =>
                IF published[rproc[r]] = <<>>
                  THEN rresult'[r] = NoResult
                  ELSE /\ rresult'[r] # NoResult
                       /\ rresult'[r].frame = LastPublished(rproc[r])
                       /\ \E i \in DOMAIN result_queue[rproc[r]] :
                             result_queue[rproc[r]][i] = rresult'[r]]_vars

\* A call read the queue after the analysis worker removed the oldest
\* result of the full queue and before it put the new one, and returned
\* the newest of the results left.
C30_Witness ==
    \E r \in Reqs : \E w \in Workers :
        /\ rop[r] = "get_latest_result" /\ rpc[r] = "ret"
        /\ wkind[w] = "analysis" /\ wproc[w] = rproc[r]
        /\ wpc[w] = "evicted"
        /\ Len(result_queue[rproc[r]]) = ResultQueueMax - 1
        /\ rresult[r] = Newest(result_queue[rproc[r]])
        /\ rresult[r].frame = LastPublished(rproc[r])
        /\ wresult[w].frame > rresult[r].frame

====
